---- MODULE Spec2Model ----
(***************************************************************************)
(* Download orchestration of terabox-cli: the CLI downloader               *)
(* (src/terabox_cli.py, class TeraboxDownloader) and the GUI worker        *)
(* (src/terabox_gui.py, class TeraboxGUI), together with the two things    *)
(* they act on: the file system and the aria2 daemon.                      *)
(*                                                                         *)
(* Sizes are counted in chunks (one unit = one chunk of iter_content, one  *)
(* unit of completed_length); times are milliseconds.                      *)
(***************************************************************************)
EXTENDS Integers, Sequences, FiniteSets, TLC

(* ------------------------------ bounds -------------------------------- *)
\* number of files of the share
NumFiles == 2
\* largest size, in chunks, of a file or of a response body
MaxSize == 2
\* sessions the daemon is given (a first session and the restarts)
MaxSessions == 5
\* longest time without progress, short of a stall, followed in the CLI loops
MaxQuietCli == 1000
\* longest time without progress, short of a stall, followed in the GUI loop
MaxQuietGui == 250
\* entry-point invocations followed (a download, then resumes)
MaxCalls == 2
\* sessions the daemon may hold for the worker's queue to be followed further
MaxHeld == 1
\* snapshots put on the queue of the progress display
MaxSnapshots == 3
CacheStep == 100
\* largest attempt number handed to calculate_delay
MaxAttempt == 10
\* values random.uniform takes between its two ends, the ends included
JitterSteps == 20

(* ------------------------- program constants -------------------------- *)
\* time.sleep(1) of the CLI polling loops
CliPollInterval == 1000
\* time.sleep(0.1) of the GUI polling loop
GuiPollInterval == 100
\* current_time - last_update_time >= 0.25
UpdateInterval == 250
\* "> 30" seconds without progress
StallThreshold == 30000
\* max_retries = 3
max_retries == 3
\* "max-connection-per-server": "16" / "split": "16" of the CLI sessions
CliConnections == 16
\* "max-connection-per-server": "8" / "split": "8" of the GUI restart session
RestartConnections == 8
\* settings defaults "max_connections": 16, "split": 16
DefaultConnections == 16
\* self.retry_delay = 2, in seconds
retry_delay == 2
\* backoff_factor = 1.5, as the fraction BackoffNum / BackoffDen
BackoffNum == 3
BackoffDen == 2
\* max_backoff = 60, in seconds
max_backoff == 60
\* random.uniform(0, 0.1 * delay): the upper end is delay / JitterDen
JitterDen == 10

Files == 1..NumFiles
Absent == -1
\* values a user can save for max_connections and split
ConnectionChoices == {RestartConnections, DefaultConnections}
\* time spent in one poll beyond the sleep (the RPC round trip, scheduling)
CliLatency == {0, StallThreshold}
GuiLatency == {GuiPollInterval \div 2, StallThreshold}

VARIABLES
    program,              \* "cli" (terabox_cli.py main) or "gui" (terabox_gui.py main)
    use_aria2,            \* TeraboxDownloader.use_aria2
    has_aria2,            \* TeraboxGUI has the attribute aria2
    settings,             \* TeraboxGUI.settings: max_connections, split
    cancel_event,         \* TeraboxDownloader.cancel_event
    cancel_flag,          \* TeraboxGUI.cancel_flag
    disk,                 \* per path: size of the destination and of destination + ".tmp"
    sessions,             \* the downloads the aria2 daemon knows, oldest first
    pc,                   \* position of the running entry point
    op,                   \* the entry point that is running
    caller,               \* who called download_file
    cur,                  \* the file being transferred
    size,                 \* per file: filesize of its task (0: no task yet)
    quiet,                \* parameter quiet of download_file
    task_state,           \* per file: the outcome reported for its task
    cause,                \* per file: the error the task ended with
    engine_used,          \* per file: the engine that carried its last transfer
    full_read,            \* per file: a full sequential read of the file succeeded
    history,              \* per file: status handed to add_to_history
    ret,                  \* per file: value returned by download_file / resume_download
    download,             \* the aria2p Download handle: gid and its last snapshot
    last_progress,        \* CLI loop local
    no_progress_for,      \* CLI loop: time.time() - no_progress_for
    last_update_ago,      \* GUI loop: time.time() - last_update_ago
    last_downloaded,      \* GUI loop local
    retry_count,          \* GUI loop local
    last_progress_ago,    \* GUI loop: time.time() - last_progress_ago
    success,              \* GUI local
    filename_set,         \* GUI local: filename is not None
    err,                  \* the exception being handled
    requested,            \* bytes asked from the server by the running entry point
    range_start,          \* first byte of the last request (Absent: none yet)
    resume_from,          \* size of the partial file resume_download found (Absent: none)
    interrupted_at,       \* per file: bytes written when a network error ended download_file
    successful_downloads, \* download_all_files local
    failed_downloads,     \* download_all_files local
    calls,                \* entry points run so far
    download_queue,       \* TeraboxGUI.download_queue: the files waiting for the worker
    attempt,              \* calculate_delay: the argument of the last call
    delay,                \* calculate_delay: its local delay, in ticks
    jitter,               \* calculate_delay: its local jitter, in ticks
    last_ui_update_ago,   \* GUI: time.time() - self._last_ui_update; Absent before it is set
    snapshot_ago,         \* time since the last snapshot of the task was enqueued; Absent if none
    spacing,              \* time between the last two snapshots of the task; Absent if none
    last_snapshot,        \* bytes downloaded in the last snapshot of the task; Absent if none
    name,                 \* per file: file['name'], the path of its destination under downloads
    download_link,        \* tl.result['download_link'] of the link resolved in the last step; NoLink otherwise
    download_url,         \* local download_url after that resolution, the URL handed to the transfer
    session_ago,          \* GUI: age of the download in hand, as SessionAge keeps it
    threads,              \* GUI: the worker threads started, the last one being download_thread
    overdue_poll,         \* the step just taken was a poll of a CLI loop begun past the stall threshold that went on to the next poll without progress
    ui_update_queue,      \* TeraboxGUI._ui_update_queue: the snapshots waiting, by their number
    ui_update_running,    \* TeraboxGUI._ui_update_running
    updaters,             \* the update_ui threads started: where each one is, and its list `updates`
    dispatched,           \* the snapshots handed to root.after, in the order of the calls
    puts,                 \* snapshots put on the queue so far
    file_cache,           \* TeraboxGUI._file_cache: the URLs that have a list in the dictionary
    last_file_check_ago,  \* time.time() - TeraboxGUI._last_file_check, as CacheAge keeps it
    list_age,             \* for each URL, how long ago its list was fetched, as CacheAge keeps it
    served                \* the URL whose list the step just taken served from the cache, or NoUrl

worldVars == <<program, use_aria2, has_aria2, settings, disk, sessions>>
flagVars == <<cancel_event, cancel_flag>>
ctlVars == <<pc, op, caller, cur, size, quiet, calls>>
outVars == <<task_state, cause, engine_used, full_read, history, ret>>
cliLoopVars == <<last_progress, no_progress_for>>
guiLoopVars == <<last_update_ago, last_downloaded, retry_count, last_progress_ago,
                 success, filename_set, session_ago>>
netVars == <<requested, range_start, resume_from, interrupted_at>>
batchVars == <<successful_downloads, failed_downloads>>
queueVars == <<download_queue>>
delayVars == <<attempt, delay, jitter>>
uiVars == <<last_ui_update_ago, snapshot_ago, spacing, last_snapshot>>
shareVars == <<name>>
linkVars == <<download_link, download_url>>
threadVars == <<threads>>
pollVars == <<overdue_poll>>
updaterVars == <<ui_update_queue, ui_update_running, updaters, dispatched, puts>>
cacheVars == <<file_cache, last_file_check_ago, list_age, served>>
vars == <<program, use_aria2, has_aria2, settings, cancel_event, cancel_flag, disk,
          sessions, pc, op, caller, cur, size, quiet, task_state, cause,
          engine_used, full_read, history, ret, download, last_progress,
          no_progress_for, last_update_ago, last_downloaded, retry_count,
          last_progress_ago, success, filename_set, err, requested, range_start,
          resume_from, interrupted_at, successful_downloads,
          failed_downloads, calls, download_queue, attempt, delay, jitter,
          last_ui_update_ago, snapshot_ago, spacing, last_snapshot, name,
          download_link, download_url, session_ago, threads, overdue_poll,
          ui_update_queue, ui_update_running, updaters, dispatched, puts,
          file_cache, last_file_check_ago, list_age, served>>

NoDownload == [gid |-> 0, status |-> "none", completed |-> 0]

(* ----------------------------- file system ---------------------------- *)
\* os.path.exists(filename), os.path.exists(temp_filename)
ExistsFinal(f) == disk[name[f]].final # Absent
ExistsTemp(f) == disk[name[f]].temp # Absent

\* The state after construction, whatever the files of the share are called.
\* The hosts of the mirror URLs the resolver returns: a URL is modelled by the
\* host label after "//", the rest of it never being touched.
Hosts == {"cdn", "d"}

\* An empty URL string.
NoUrl == ""

\* tl.result['download_link']: the candidate URLs by key, some of them empty.
Links == [url_1 : Hosts \cup {NoUrl}, url_2 : Hosts \cup {NoUrl}]

\* No link was resolved in the last step.
NoLink == [url_1 |-> NoUrl, url_2 |-> NoUrl]

\* url.replace('//cdn.', '//d.').replace('//c.', '//d.').replace('//b.', '//d.')
\*    .replace('//a.', '//d.')
Rewritten(url) == IF url \in {"cdn", "c", "b", "a"} THEN "d" ELSE url

\* tl.result['download_link'].get('url_1', '') and, where it is not empty, the
\* replace chain: the URL of the transfer, NoUrl when there is none.
SelectUrl(dl) == IF dl.url_1 # NoUrl THEN Rewritten(dl.url_1) ELSE NoUrl

\* The link of a task is resolved with outcome link and result dl.
Resolve(link, dl) ==
    /\ download_link' = IF link = "ok" THEN dl ELSE NoLink
    /\ download_url' = IF link = "ok" THEN SelectUrl(dl) ELSE NoUrl

\* Any other step: the resolver's result is behind.
ForgetLink ==
    /\ download_link' = NoLink
    /\ download_url' = NoUrl

\* The share URLs typed into the URL field of the GUI.
CacheUrls == {"share1", "share2", "share3"}

\* TeraboxGUI._cache_timeout, in seconds.
cache_timeout == 300

\* An age a, e seconds later; ages of the timeout and more are kept as one.
CacheAge(a, e) == IF a + e > cache_timeout THEN cache_timeout ELSE a + e

\* The seconds that pass before a call of process_url, and during its fetch.
Elapsed == {0, CacheStep, cache_timeout}

\* Any step but a poll of download_with_aria2 or download_all_files.
NoPoll == overdue_poll' = FALSE

InitCore ==
    /\ program \in {"cli", "gui"}
    /\ use_aria2 \in BOOLEAN
    /\ has_aria2 = use_aria2
    /\ settings \in [max_connections : ConnectionChoices, split : ConnectionChoices]
    /\ program = "cli" =>
           settings = [max_connections |-> DefaultConnections, split |-> DefaultConnections]
    /\ cancel_event = FALSE
    /\ cancel_flag = FALSE
    /\ disk = [f \in Files |-> [final |-> Absent, temp |-> Absent]]
    /\ sessions = << >>
    /\ pc = "idle"
    /\ op = "none"
    /\ caller = "none"
    /\ cur = 0
    /\ size = [f \in Files |-> 0]
    /\ quiet = FALSE
    /\ task_state = [f \in Files |-> "none"]
    /\ cause = [f \in Files |-> "none"]
    /\ engine_used = [f \in Files |-> "none"]
    /\ full_read = [f \in Files |-> FALSE]
    /\ history = [f \in Files |-> "none"]
    /\ ret = [f \in Files |-> "none"]
    /\ download = NoDownload
    /\ last_progress = -1
    /\ no_progress_for = 0
    /\ last_update_ago = 0
    /\ last_downloaded = 0
    /\ retry_count = 0
    /\ last_progress_ago = 0
    /\ session_ago = 0
    /\ success = FALSE
    /\ filename_set = FALSE
    /\ err = "none"
    /\ requested = 0
    /\ range_start = Absent
    /\ resume_from = Absent
    /\ interrupted_at = [f \in Files |-> 0]
    /\ successful_downloads = 0
    /\ failed_downloads = << >>
    /\ calls = 0
    /\ download_queue = << >>
    /\ attempt = Absent
    /\ delay = 0
    /\ jitter = 0
    /\ last_ui_update_ago = Absent
    /\ snapshot_ago = Absent
    /\ spacing = Absent
    /\ last_snapshot = Absent
    /\ download_link = NoLink
    /\ download_url = NoUrl
    /\ threads = << >>
    /\ overdue_poll = FALSE
    /\ ui_update_queue = << >>
    /\ ui_update_running = FALSE
    /\ updaters = << >>
    /\ dispatched = << >>
    /\ puts = 0
    /\ file_cache = {}
    /\ last_file_check_ago = cache_timeout
    /\ list_age = [u \in CacheUrls |-> cache_timeout]
    /\ served = NoUrl

\* A share whose files have names of their own.
Init ==
    /\ InitCore
    /\ name = [f \in Files |-> f]

(* ------------------------- ending a task ------------------------------ *)
\* The loop locals after a task: what the next task's first lines set them to.
ResetLocals ==
    /\ download' = NoDownload
    /\ last_progress' = -1
    /\ no_progress_for' = 0
    /\ last_update_ago' = 0
    /\ last_downloaded' = 0
    /\ retry_count' = 0
    /\ last_progress_ago' = 0
    /\ session_ago' = 0
    /\ success' = FALSE
    /\ filename_set' = FALSE
    /\ err' = "none"

\* A new task for file f starts: nothing is reported for it yet.
ClearOutcome(f) ==
    /\ task_state' = [task_state EXCEPT ![f] = "none"]
    /\ cause' = [cause EXCEPT ![f] = "none"]
    /\ engine_used' = [engine_used EXCEPT ![f] = "none"]
    /\ full_read' = [full_read EXCEPT ![f] = FALSE]
    /\ ret' = [ret EXCEPT ![f] = "none"]
    /\ UNCHANGED history

\* The entry point is left: control goes back to the user.
LeaveEntry ==
    /\ pc' = "idle"
    /\ op' = "none"
    /\ caller' = "none"
    /\ cur' = 0
    /\ quiet' = FALSE
    /\ calls' = calls + 1
    /\ UNCHANGED size

\* download_file / resume_download return val for file f, having reported st.
\* In download_all_files the call is line 612 and the loop goes on from there.
Return(f, val, st, c) ==
    /\ ret' = [ret EXCEPT ![f] = val]
    /\ task_state' = [task_state EXCEPT ![f] = st]
    /\ cause' = [cause EXCEPT ![f] = c]
    /\ IF caller = "batch"
       THEN /\ pc' = "b_returned"
            /\ UNCHANGED <<op, caller, cur, size, quiet, calls>>
       ELSE LeaveEntry

(* ---------------- TeraboxDownloader.download_file --------------------- *)
\* process_url, lines 905-997: the user picks file f and confirms, the link is
\* resolved and download_file is called without quiet; with no link or no URL
\* the function reports it and returns.
process_url(f) ==
    /\ pc = "idle"
    /\ program = "cli"
    /\ calls = 0
    /\ \E sz \in 1..MaxSize, link \in {"ok", "fail", "raise"}, dl \in Links :
         /\ Resolve(link, dl)
         /\ IF link = "ok" /\ SelectUrl(dl) # NoUrl
            THEN /\ size' = [size EXCEPT ![f] = sz]
                 /\ pc' = "df_enter"
                 /\ op' = "download_file"
                 /\ caller' = "single"
                 /\ cur' = f
                 /\ ClearOutcome(f)
                 /\ UNCHANGED calls
            ELSE /\ task_state' = [task_state EXCEPT ![f] = "Failed"]
                 /\ cause' = [cause EXCEPT ![f] = IF link = "ok" THEN "nourl" ELSE "nolink"]
                 /\ engine_used' = [engine_used EXCEPT ![f] = "none"]
                 /\ full_read' = [full_read EXCEPT ![f] = FALSE]
                 /\ ret' = [ret EXCEPT ![f] = "none"]
                 /\ calls' = calls + 1
                 /\ UNCHANGED <<pc, op, caller, cur, size, history>>
    /\ quiet' = FALSE
    /\ requested' = 0
    /\ range_start' = Absent
    /\ resume_from' = Absent
    /\ interrupted_at' = [interrupted_at EXCEPT ![f] = 0]
    /\ UNCHANGED <<worldVars, flagVars, download, cliLoopVars, guiLoopVars,
                   err, batchVars>>
    /\ UNCHANGED queueVars
    /\ UNCHANGED shareVars
    /\ UNCHANGED cacheVars
    /\ UNCHANGED updaterVars
    /\ NoPoll
    /\ UNCHANGED threadVars
    /\ UNCHANGED delayVars
    /\ UNCHANGED uiVars

\* download_file, lines 690-698: clear the cancel event, pick the engine.
download_file_enter ==
    /\ pc = "df_enter"
    /\ cancel_event' = FALSE
    /\ pc' = IF use_aria2 THEN "a_add" ELSE "d_get"
    /\ UNCHANGED <<worldVars, cancel_flag, op, caller, cur, size, quiet, calls,
                   outVars, download, cliLoopVars, guiLoopVars, err, netVars, batchVars>>
    /\ UNCHANGED queueVars
    /\ UNCHANGED shareVars
    /\ UNCHANGED cacheVars
    /\ UNCHANGED updaterVars
    /\ NoPoll
    /\ UNCHANGED threadVars
    /\ ForgetLink
    /\ UNCHANGED delayVars
    /\ UNCHANGED uiVars

\* download_file, lines 698-739 / 767-769: requests.get of the whole file, then
\* open(temp_filename, 'wb'), which truncates.
DirectGet ==
    /\ pc = "d_get"
    /\ requested' = requested + size[cur]
    /\ range_start' = 0
    /\ engine_used' = [engine_used EXCEPT ![cur] = "direct"]
    /\ \E r \in {"ok", "raise"} :
         IF r = "ok"
         THEN /\ disk' = [disk EXCEPT ![name[cur]].temp = 0]
              /\ pc' = "d_stream"
              /\ err' = err
         ELSE /\ disk' = disk
              /\ pc' = "d_except"
              /\ err' = "network"
    /\ UNCHANGED <<program, use_aria2, has_aria2, settings, sessions, flagVars,
                   op, caller, cur, size, quiet, calls, task_state, cause, full_read,
                   history, ret, download, cliLoopVars, guiLoopVars, resume_from,
                   interrupted_at, batchVars>>
    /\ UNCHANGED queueVars
    /\ UNCHANGED shareVars
    /\ UNCHANGED cacheVars
    /\ UNCHANGED updaterVars
    /\ NoPoll
    /\ UNCHANGED threadVars
    /\ ForgetLink
    /\ UNCHANGED delayVars
    /\ UNCHANGED uiVars

\* download_file, lines 741-749 / 770-772: one step of iter_content. The cancel
\* event is looked at only in the non-quiet loop, after a chunk has arrived.
DirectChunk ==
    /\ pc = "d_stream"
    /\ \E ev \in {"chunk", "end", "error"} :
         \/ /\ ev = "chunk"
            /\ disk[name[cur]].temp < MaxSize
            /\ IF ~quiet /\ cancel_event
               THEN /\ err' = "cancel"
                    /\ pc' = "d_except"
                    /\ disk' = disk
               ELSE /\ disk' = [disk EXCEPT ![name[cur]].temp = @ + 1]
                    /\ pc' = pc
                    /\ err' = err
            /\ UNCHANGED interrupted_at
         \/ /\ ev = "end"
            /\ pc' = "d_check"
            /\ UNCHANGED <<disk, err, interrupted_at>>
         \/ /\ ev = "error"
            /\ err' = "network"
            /\ pc' = "d_except"
            /\ interrupted_at' = [interrupted_at EXCEPT ![cur] = disk[name[cur]].temp]
            /\ UNCHANGED disk
    /\ UNCHANGED <<program, use_aria2, has_aria2, settings, sessions, flagVars,
                   op, caller, cur, size, quiet, calls, outVars, download,
                   cliLoopVars, guiLoopVars, requested, range_start, resume_from, batchVars>>
    /\ UNCHANGED queueVars
    /\ UNCHANGED shareVars
    /\ UNCHANGED cacheVars
    /\ UNCHANGED updaterVars
    /\ NoPoll
    /\ UNCHANGED threadVars
    /\ ForgetLink
    /\ UNCHANGED delayVars
    /\ UNCHANGED uiVars

\* os.rename(temp_filename, filename): the temporary file becomes the destination.
\* Where the destination exists the rename replaces it (POSIX) or raises (Windows).
Renamed(f) == [disk EXCEPT ![name[f]] = [final |-> disk[name[f]].temp, temp |-> Absent]]

\* os.path.getsize(temp_filename) == filesize, lines 775 and 1053
SizeMatches(f) == disk[name[f]].temp = size[f]

\* download_file, lines 774-779: the size check and the rename.
DirectCheck ==
    /\ pc = "d_check"
    /\ \/ /\ SizeMatches(cur)
          /\ disk' = Renamed(cur)
          /\ Return(cur, "True", "Completed", "none")
          /\ ResetLocals
       \/ /\ SizeMatches(cur)
          /\ ExistsFinal(cur)
          /\ err' = "rename"
          /\ pc' = "d_except"
          /\ UNCHANGED <<disk, op, caller, cur, size, quiet, calls, outVars, download,
                         cliLoopVars, guiLoopVars>>
       \/ /\ ~SizeMatches(cur)
          /\ err' = "size"
          /\ pc' = "d_except"
          /\ UNCHANGED <<disk, op, caller, cur, size, quiet, calls, outVars, download,
                         cliLoopVars, guiLoopVars>>
    /\ UNCHANGED <<program, use_aria2, has_aria2, settings, sessions, flagVars,
                   engine_used, full_read, history, netVars, batchVars>>
    /\ UNCHANGED queueVars
    /\ UNCHANGED shareVars
    /\ UNCHANGED cacheVars
    /\ UNCHANGED updaterVars
    /\ NoPoll
    /\ UNCHANGED threadVars
    /\ ForgetLink
    /\ UNCHANGED delayVars
    /\ UNCHANGED uiVars

\* What handle_error and the console report for an exception.
Reported(e) == IF e = "cancel" THEN "Cancelled" ELSE "Failed"

\* The handler of download_file without its os.remove(temp_filename).
TempKept(f) == disk

\* The temporary file after the handler of download_file, lines 782-783.
TempRemoved(f) == [disk EXCEPT ![name[f]].temp = Absent]

\* download_file, lines 781-785: remove the temporary file, report, return False.
DirectExcept ==
    /\ pc = "d_except"
    /\ disk' = TempRemoved(cur)
    /\ Return(cur, "False", Reported(err), err)
    /\ ResetLocals
    /\ UNCHANGED <<program, use_aria2, has_aria2, settings, sessions, flagVars,
                   engine_used, full_read, history, netVars, batchVars>>
    /\ UNCHANGED queueVars
    /\ UNCHANGED shareVars
    /\ UNCHANGED cacheVars
    /\ UNCHANGED updaterVars
    /\ NoPoll
    /\ UNCHANGED threadVars
    /\ ForgetLink
    /\ UNCHANGED delayVars
    /\ UNCHANGED uiVars

\* main, lines 1083-1084: Ctrl-C while the direct engine streams. KeyboardInterrupt
\* is no Exception: no handler of download_file runs and the partial file stays.
KeyboardInterrupt ==
    /\ program = "cli"
    /\ pc \in {"d_stream", "r_stream"}
    /\ task_state' = [task_state EXCEPT ![cur] = "Cancelled"]
    /\ cause' = [cause EXCEPT ![cur] = "interrupt"]
    /\ LeaveEntry
    /\ ResetLocals
    /\ UNCHANGED <<worldVars, flagVars, engine_used, full_read, history, ret,
                   netVars, batchVars>>
    /\ UNCHANGED queueVars
    /\ UNCHANGED shareVars
    /\ UNCHANGED cacheVars
    /\ UNCHANGED updaterVars
    /\ NoPoll
    /\ UNCHANGED threadVars
    /\ ForgetLink
    /\ UNCHANGED delayVars
    /\ UNCHANGED uiVars

(* ---------------- TeraboxDownloader.resume_download ------------------- *)
\* A caller resumes the task of file f. The cancel event is not cleared here.
resume_download(f) ==
    /\ pc = "idle"
    /\ program = "cli"
    /\ calls < MaxCalls
    /\ IF size[f] = 0
       THEN \E sz \in 1..MaxSize : size' = [size EXCEPT ![f] = sz]
       ELSE size' = size
    /\ pc' = "r_enter"
    /\ op' = "resume_download"
    /\ caller' = "resume"
    /\ cur' = f
    /\ quiet' = FALSE
    /\ ClearOutcome(f)
    /\ requested' = 0
    /\ range_start' = Absent
    /\ resume_from' = Absent
    /\ UNCHANGED <<worldVars, flagVars, calls, download, cliLoopVars, guiLoopVars,
                   err, interrupted_at, batchVars>>
    /\ UNCHANGED queueVars
    /\ UNCHANGED shareVars
    /\ UNCHANGED cacheVars
    /\ UNCHANGED updaterVars
    /\ NoPoll
    /\ UNCHANGED threadVars
    /\ ForgetLink
    /\ UNCHANGED delayVars
    /\ UNCHANGED uiVars

\* resume_download, lines 1035-1042 and 1060: a partial temporary file smaller
\* than filesize is continued with a Range request; anything else is handed to
\* download_file.
ResumeRequest ==
    /\ pc = "r_enter"
    /\ IF ExistsTemp(cur) /\ disk[name[cur]].temp < size[cur]
       THEN /\ resume_from' = disk[name[cur]].temp
            /\ requested' = requested + (size[cur] - disk[name[cur]].temp)
            /\ range_start' = disk[name[cur]].temp
            /\ engine_used' = [engine_used EXCEPT ![cur] = "direct"]
            /\ \E r \in {"ok", "raise"} :
                 IF r = "ok"
                 THEN pc' = "r_stream" /\ err' = err
                 ELSE pc' = "r_except" /\ err' = "network"
       ELSE /\ pc' = "df_enter"
            /\ UNCHANGED <<resume_from, requested, range_start, engine_used, err>>
    /\ UNCHANGED <<worldVars, flagVars, op, caller, cur, size, quiet, calls,
                   task_state, cause, full_read, history, ret, download,
                   cliLoopVars, guiLoopVars, interrupted_at, batchVars>>
    /\ UNCHANGED queueVars
    /\ UNCHANGED shareVars
    /\ UNCHANGED cacheVars
    /\ UNCHANGED updaterVars
    /\ NoPoll
    /\ UNCHANGED threadVars
    /\ ForgetLink
    /\ UNCHANGED delayVars
    /\ UNCHANGED uiVars

\* resume_download, lines 1044-1051: one step of iter_content, appended to the
\* temporary file; a set cancel event returns False and leaves the file.
ResumeChunk ==
    /\ pc = "r_stream"
    /\ \E ev \in {"chunk", "end", "error"} :
         \/ /\ ev = "chunk"
            /\ disk[name[cur]].temp < MaxSize
            /\ IF cancel_event
               THEN /\ Return(cur, "False", "Cancelled", "cancel")
                    /\ ResetLocals
                    /\ disk' = disk
               ELSE /\ disk' = [disk EXCEPT ![name[cur]].temp = @ + 1]
                    /\ UNCHANGED <<ctlVars, task_state, cause, ret, download,
                                   cliLoopVars, guiLoopVars, err>>
            /\ UNCHANGED interrupted_at
         \/ /\ ev = "end"
            /\ pc' = "r_check"
            /\ UNCHANGED <<disk, op, caller, cur, size, quiet, calls, task_state,
                           cause, ret, download, cliLoopVars, guiLoopVars, err, interrupted_at>>
         \/ /\ ev = "error"
            /\ err' = "network"
            /\ pc' = "r_except"
            /\ interrupted_at' = [interrupted_at EXCEPT ![cur] = disk[name[cur]].temp]
            /\ UNCHANGED <<disk, op, caller, cur, size, quiet, calls, task_state,
                           cause, ret, download, cliLoopVars, guiLoopVars>>
    /\ UNCHANGED <<program, use_aria2, has_aria2, settings, sessions, flagVars,
                   engine_used, full_read, history, requested, range_start,
                   resume_from, batchVars>>
    /\ UNCHANGED queueVars
    /\ UNCHANGED shareVars
    /\ UNCHANGED cacheVars
    /\ UNCHANGED updaterVars
    /\ NoPoll
    /\ UNCHANGED threadVars
    /\ ForgetLink
    /\ UNCHANGED delayVars
    /\ UNCHANGED uiVars

\* resume_download, lines 1053-1055 and 1060: a temporary file of the right size
\* is renamed; one of another size falls through to download_file.
ResumeCheck ==
    /\ pc = "r_check"
    /\ \/ /\ SizeMatches(cur)
          /\ disk' = Renamed(cur)
          /\ Return(cur, "True", "Completed", "none")
          /\ ResetLocals
       \/ /\ SizeMatches(cur)
          /\ ExistsFinal(cur)
          /\ err' = "rename"
          /\ pc' = "r_except"
          /\ UNCHANGED <<disk, op, caller, cur, size, quiet, calls, task_state,
                         cause, ret, download, cliLoopVars, guiLoopVars>>
       \/ /\ ~SizeMatches(cur)
          /\ pc' = "df_enter"
          /\ UNCHANGED <<disk, op, caller, cur, size, quiet, calls, task_state,
                         cause, ret, download, cliLoopVars, guiLoopVars, err>>
    /\ UNCHANGED <<program, use_aria2, has_aria2, settings, sessions, flagVars,
                   engine_used, full_read, history, netVars, batchVars>>
    /\ UNCHANGED queueVars
    /\ UNCHANGED shareVars
    /\ UNCHANGED cacheVars
    /\ UNCHANGED updaterVars
    /\ NoPoll
    /\ UNCHANGED threadVars
    /\ ForgetLink
    /\ UNCHANGED delayVars
    /\ UNCHANGED uiVars

\* resume_download, lines 1056-1058: report and return False; the temporary file
\* is left as it is.
ResumeExcept ==
    /\ pc = "r_except"
    /\ Return(cur, "False", Reported(err), err)
    /\ ResetLocals
    /\ UNCHANGED <<worldVars, flagVars, engine_used, full_read, history, netVars,
                   batchVars>>
    /\ UNCHANGED queueVars
    /\ UNCHANGED shareVars
    /\ UNCHANGED cacheVars
    /\ UNCHANGED updaterVars
    /\ NoPoll
    /\ UNCHANGED threadVars
    /\ ForgetLink
    /\ UNCHANGED delayVars
    /\ UNCHANGED uiVars

(* -------------------------------- time -------------------------------- *)
\* The loops keep timestamps and read only their distance to time.time(): the
\* model keeps that distance. Every distance beyond the stall threshold acts
\* alike, and so does every distance from the update interval on.
Age(a, d) == IF a + d > StallThreshold THEN StallThreshold + 1 ELSE a + d
UpdateAge(a, d) == IF a + d >= UpdateInterval THEN UpdateInterval ELSE a + d
\* The same for a timestamp that may not be set yet.
UiAge(a, d) == IF a = Absent THEN Absent ELSE UpdateAge(a, d)

\* The age of the download in hand, read only against the stall threshold: 0
\* for a download just added, 1 for every other age short of the threshold (the
\* short polls followed between two downloads never add up to it), and beyond.
SessionAge(a, d) ==
    IF a + d > StallThreshold THEN StallThreshold + 1
    ELSE IF a + d > 0 THEN 1 ELSE 0

\* A poll without progress is followed while the time without progress is within
\* the bound, or is a stall.
Followed(age, bound) == age <= bound \/ age > StallThreshold

(* --------------------------- the aria2 daemon ------------------------- *)
\* completed_length of a download just added with "continue": "true": what the
\* destination already holds.
StartCompleted(f) == IF ExistsFinal(f) THEN disk[name[f]].final ELSE 0

\* aria2.add_uris([url], options) for file f with c connections, s splits and,
\* where h, the "header" option.
NewSession(f, c, s, h) ==
    [file |-> f, conn |-> c, split |-> s, header |-> h, status |-> "active",
     completed |-> StartCompleted(f)]

\* The handle add_uris returns: the gid and the first snapshot.
NewDownload(f) ==
    [gid |-> Len(sessions) + 1, status |-> "active", completed |-> StartCompleted(f)]

\* download.update(): the snapshot is read again from the daemon.
Updated == [download EXCEPT !.status = sessions[download.gid].status,
                            !.completed = sessions[download.gid].completed]

\* download.is_complete, read from the last snapshot.
is_complete == download.status = "complete"

\* A cancel that leaves the loop without download.remove().
NotRemoved == sessions

\* download.remove(): the daemon stops the download and drops its result, so it
\* knows the gid no longer; the file stays.
Removed == [sessions EXCEPT ![download.gid].status = "removed",
                            ![download.gid].completed = 0]

\* The daemon still knows the gid of the handle: download.update() raises
\* ClientException where it does not.
Known == sessions[download.gid].status # "removed"

\* The daemon writes one more chunk of session i to the destination.
EngineWrite(i) ==
    /\ sessions[i].status = "active"
    /\ sessions[i].completed < MaxSize
    /\ sessions' = [sessions EXCEPT ![i].completed = @ + 1]
    /\ disk' = [disk EXCEPT ![name[sessions[i].file]].final = sessions[i].completed + 1]
    /\ UNCHANGED <<program, use_aria2, has_aria2, settings, flagVars, ctlVars,
                   outVars, download, cliLoopVars, guiLoopVars, err, netVars,
                   batchVars>>
    /\ UNCHANGED queueVars
    /\ UNCHANGED shareVars
    /\ UNCHANGED cacheVars
    /\ UNCHANGED updaterVars
    /\ NoPoll
    /\ UNCHANGED threadVars
    /\ ForgetLink
    /\ UNCHANGED delayVars
    /\ UNCHANGED uiVars

\* A download the daemon has added and whose server has not answered yet: the
\* daemon has not opened the destination, and reports no byte for it.
Connecting(s) == [s EXCEPT !.status = "waiting", !.completed = 0]

\* The server answers session i: the daemon opens the destination and goes on
\* from what it holds ("continue": "true").
EngineConnect(i) ==
    /\ sessions[i].status = "waiting"
    /\ sessions' = [sessions EXCEPT ![i].status = "active",
                                    ![i].completed = StartCompleted(sessions[i].file)]
    /\ UNCHANGED <<program, use_aria2, has_aria2, settings, disk, flagVars, ctlVars,
                   outVars, download, cliLoopVars, guiLoopVars, err, netVars,
                   batchVars>>
    /\ UNCHANGED queueVars
    /\ UNCHANGED shareVars
    /\ UNCHANGED cacheVars
    /\ UNCHANGED updaterVars
    /\ NoPoll
    /\ UNCHANGED threadVars
    /\ ForgetLink
    /\ UNCHANGED delayVars
    /\ UNCHANGED uiVars

\* The server has nothing more to send: session i is complete. A session that
\* received nothing has written no file.
EngineComplete(i) ==
    /\ sessions[i].status = "active"
    /\ sessions' = [sessions EXCEPT ![i].status = "complete"]
    /\ UNCHANGED <<program, use_aria2, has_aria2, settings, disk, flagVars,
                   ctlVars, outVars, download, cliLoopVars, guiLoopVars, err,
                   netVars, batchVars>>
    /\ UNCHANGED queueVars
    /\ UNCHANGED shareVars
    /\ UNCHANGED cacheVars
    /\ UNCHANGED updaterVars
    /\ NoPoll
    /\ UNCHANGED threadVars
    /\ ForgetLink
    /\ UNCHANGED delayVars
    /\ UNCHANGED uiVars

\* The daemon gives session i up (max-tries used up, HTTP error).
EngineError(i) ==
    /\ sessions[i].status = "active"
    /\ sessions' = [sessions EXCEPT ![i].status = "error"]
    /\ UNCHANGED <<program, use_aria2, has_aria2, settings, disk, flagVars,
                   ctlVars, outVars, download, cliLoopVars, guiLoopVars, err,
                   netVars, batchVars>>
    /\ UNCHANGED queueVars
    /\ UNCHANGED shareVars
    /\ UNCHANGED cacheVars
    /\ UNCHANGED updaterVars
    /\ NoPoll
    /\ UNCHANGED threadVars
    /\ ForgetLink
    /\ UNCHANGED delayVars
    /\ UNCHANGED uiVars

(* -------------- TeraboxDownloader.download_with_aria2 ----------------- *)
\* CliVerify without the comparison of sizes.
CliVerifyExistsOnly(f) == IF ExistsFinal(f) THEN "ok" ELSE "missing"

\* The post-transfer check of the CLI, lines 252-261 and 585-597: "ok", or the
\* exception raised.
CliVerify(f) ==
    IF ExistsFinal(f)
    THEN IF disk[name[f]].final = size[f] THEN "ok" ELSE "size"
    ELSE "missing"

\* lines 235-241 and 570-575: the stall test of the CLI loops for the snapshot d,
\* age after the last change of progress.
CliStalled(d, age) == d.completed = last_progress /\ age > StallThreshold

\* download_with_aria2, lines 192-222: add the download to the daemon.
AriaAdd ==
    /\ pc = "a_add"
    /\ \E r \in {"ok", "raise"} :
         IF r = "ok"
         THEN /\ sessions' = Append(sessions, NewSession(cur, CliConnections, CliConnections, FALSE))
              /\ download' = NewDownload(cur)
              /\ engine_used' = [engine_used EXCEPT ![cur] = "aria2"]
              /\ last_progress' = -1
              /\ no_progress_for' = 0
              /\ pc' = "a_loop"
              /\ err' = err
         ELSE /\ err' = "engine"
              /\ pc' = "a_except"
              /\ UNCHANGED <<sessions, download, engine_used, cliLoopVars>>
    /\ UNCHANGED <<program, use_aria2, has_aria2, settings, disk, flagVars, op,
                   caller, cur, size, quiet, calls, task_state, cause, full_read,
                   history, ret, guiLoopVars, netVars, batchVars>>
    /\ UNCHANGED queueVars
    /\ UNCHANGED shareVars
    /\ UNCHANGED cacheVars
    /\ UNCHANGED updaterVars
    /\ NoPoll
    /\ UNCHANGED threadVars
    /\ ForgetLink
    /\ UNCHANGED delayVars
    /\ UNCHANGED uiVars

\* lines 230-249 and 564-582: the iteration began with no cancel asked for and
\* with the last progress more than 30 seconds back, and it leaves the loop
\* running with no progress seen.
Overdue ==
    /\ ~cancel_event
    /\ no_progress_for > StallThreshold
    /\ pc' = pc
    /\ last_progress' = last_progress

\* download_with_aria2, lines 224-249: one iteration of the polling loop.
AriaPoll ==
    /\ pc = "a_loop"
    /\ ~is_complete
    /\ IF cancel_event
       THEN /\ sessions' = Removed
            /\ Return(cur, "False", "Cancelled", "cancel")
            /\ ResetLocals
       ELSE /\ \E u \in {"ok", "client_exc", "other_exc"}, lat \in CliLatency :
                 \/ /\ u = "ok"
                    /\ Known
                    /\ download' = Updated
                    /\ IF Updated.completed # last_progress
                       THEN /\ last_progress' = Updated.completed
                            /\ no_progress_for' = CliPollInterval
                            /\ UNCHANGED <<pc, err>>
                       ELSE IF CliStalled(Updated, Age(no_progress_for, lat))
                            THEN /\ err' = "stall"
                                 /\ pc' = "a_except"
                                 /\ UNCHANGED cliLoopVars
                            ELSE /\ Followed(Age(no_progress_for, lat + CliPollInterval),
                                             MaxQuietCli)
                                 /\ no_progress_for' =
                                        Age(no_progress_for, lat + CliPollInterval)
                                 /\ UNCHANGED <<pc, err, last_progress>>
                 \/ /\ u = "client_exc"
                    /\ Followed(Age(no_progress_for, lat), MaxQuietCli)
                    /\ no_progress_for' = Age(no_progress_for, lat)
                    /\ UNCHANGED <<pc, err, download, last_progress>>
                 \/ /\ u = "other_exc"
                    /\ err' = "engine"
                    /\ pc' = "a_except"
                    /\ UNCHANGED <<download, cliLoopVars>>
            /\ UNCHANGED <<sessions, op, caller, cur, size, quiet, calls, task_state,
                           cause, ret, guiLoopVars>>
    /\ UNCHANGED <<program, use_aria2, has_aria2, settings, disk, flagVars,
                   engine_used, full_read, history, netVars, batchVars>>
    /\ UNCHANGED queueVars
    /\ UNCHANGED shareVars
    /\ UNCHANGED cacheVars
    /\ UNCHANGED updaterVars
    /\ overdue_poll' = Overdue
    /\ UNCHANGED threadVars
    /\ ForgetLink
    /\ UNCHANGED delayVars
    /\ UNCHANGED uiVars

\* download_with_aria2, lines 251-261: the loop is left, the file is checked.
AriaVerify ==
    /\ pc = "a_loop"
    /\ is_complete
    /\ IF CliVerify(cur) = "ok"
       THEN /\ Return(cur, "True", "Completed", "none")
            /\ ResetLocals
       ELSE /\ err' = CliVerify(cur)
            /\ pc' = "a_except"
            /\ UNCHANGED <<op, caller, cur, size, quiet, calls, task_state, cause,
                           ret, download, cliLoopVars, guiLoopVars>>
    /\ UNCHANGED <<worldVars, flagVars, engine_used, full_read, history, netVars,
                   batchVars>>
    /\ UNCHANGED queueVars
    /\ UNCHANGED shareVars
    /\ UNCHANGED cacheVars
    /\ UNCHANGED updaterVars
    /\ NoPoll
    /\ UNCHANGED threadVars
    /\ ForgetLink
    /\ UNCHANGED delayVars
    /\ UNCHANGED uiVars

\* download_with_aria2, lines 263-265: handle_error and return False.
AriaExcept ==
    /\ pc = "a_except"
    /\ Return(cur, "False", "Failed", err)
    /\ ResetLocals
    /\ UNCHANGED <<worldVars, flagVars, engine_used, full_read, history, netVars,
                   batchVars>>
    /\ UNCHANGED queueVars
    /\ UNCHANGED shareVars
    /\ UNCHANGED cacheVars
    /\ UNCHANGED updaterVars
    /\ NoPoll
    /\ UNCHANGED threadVars
    /\ ForgetLink
    /\ UNCHANGED delayVars
    /\ UNCHANGED uiVars

(* ---------------- TeraboxDownloader.calculate_delay ------------------- *)
RECURSIVE Pow(_, _)
Pow(b, n) == IF n = 0 THEN 1 ELSE b * Pow(b, n - 1)

\* Delays are kept in ticks, fine enough for every delay and jitter of an
\* attempt up to MaxAttempt to be a whole number of them.
TicksPerSecond == Pow(BackoffDen, MaxAttempt) * JitterDen * JitterSteps

\* The backoff without its cap.
DelayUncapped(a) ==
    retry_delay * Pow(BackoffNum, a) * Pow(BackoffDen, MaxAttempt - a)
        * JitterDen * JitterSteps

\* line 684: min(self.retry_delay * (backoff_factor ** attempt), max_backoff)
Delay(a) ==
    IF DelayUncapped(a) < max_backoff * TicksPerSecond
    THEN DelayUncapped(a)
    ELSE max_backoff * TicksPerSecond

\* line 685: random.uniform(0, 0.1 * delay), the k-th of its values
Jitter(d, k) == (d \div (JitterDen * JitterSteps)) * k

\* calculate_delay(a), lines 679-686. No code of the program calls it; a caller
\* may, with any attempt number. It returns delay + jitter.
calculate_delay(a) ==
    /\ program = "cli"
    /\ pc = "idle"
    /\ attempt' = a
    /\ delay' = Delay(a)
    /\ \E k \in 0..JitterSteps : jitter' = Jitter(Delay(a), k)
    /\ UNCHANGED <<worldVars, flagVars, ctlVars, outVars, download, cliLoopVars,
                   guiLoopVars, err, netVars, batchVars>>
    /\ UNCHANGED queueVars
    /\ UNCHANGED shareVars
    /\ UNCHANGED cacheVars
    /\ UNCHANGED updaterVars
    /\ NoPoll
    /\ UNCHANGED threadVars
    /\ ForgetLink
    /\ UNCHANGED uiVars

(* --------------- TeraboxDownloader.download_all_files ----------------- *)
\* download_all_files, lines 446-496: the user confirms; the statistics start.
download_all_files ==
    /\ pc = "idle"
    /\ program = "cli"
    /\ calls = 0
    /\ pc' = "b_link"
    /\ op' = "download_all_files"
    /\ caller' = "batch"
    /\ cur' = 1
    /\ successful_downloads' = 0
    /\ failed_downloads' = << >>
    /\ UNCHANGED <<worldVars, flagVars, size, quiet, calls, outVars, download,
                   cliLoopVars, guiLoopVars, err, netVars>>
    /\ UNCHANGED queueVars
    /\ UNCHANGED shareVars
    /\ UNCHANGED cacheVars
    /\ UNCHANGED updaterVars
    /\ NoPoll
    /\ UNCHANGED threadVars
    /\ ForgetLink
    /\ UNCHANGED delayVars
    /\ UNCHANGED uiVars

\* The for loop of download_all_files with a break where it has continue.
NextFileBreak == LeaveEntry

\* The for loop of download_all_files goes on with the next file, or the summary
\* is printed and the function returns.
NextFile ==
    IF cur < NumFiles
    THEN /\ cur' = cur + 1
         /\ pc' = "b_link"
         /\ quiet' = FALSE
         /\ UNCHANGED <<op, caller, size, calls>>
    ELSE LeaveEntry

\* The file in hand reported as failed and left out of failed_downloads.
FailedUncounted(reason) ==
    /\ task_state' = [task_state EXCEPT ![cur] = "Failed"]
    /\ cause' = [cause EXCEPT ![cur] = reason]
    /\ UNCHANGED <<successful_downloads, failed_downloads>>

\* failed_downloads.append((file['name'], reason)) for the file in hand.
Failed(reason) ==
    /\ failed_downloads' = Append(failed_downloads, cur)
    /\ task_state' = [task_state EXCEPT ![cur] = "Failed"]
    /\ cause' = [cause EXCEPT ![cur] = reason]
    /\ UNCHANGED successful_downloads

\* download_all_files, lines 499-531 and 607-612: the link of the file in hand.
BatchLink ==
    /\ pc = "b_link"
    /\ \E sz \in 1..MaxSize, link \in {"ok", "fail", "raise"}, dl \in Links :
         /\ Resolve(link, dl)
         /\ IF link = "ok" /\ SelectUrl(dl) # NoUrl
            THEN
              /\ size' = [size EXCEPT ![cur] = sz]
              /\ pc' = IF use_aria2 THEN "b_add" ELSE "df_enter"
              /\ quiet' = ~use_aria2
              /\ task_state' = [task_state EXCEPT ![cur] = "none"]
              /\ cause' = [cause EXCEPT ![cur] = "none"]
              /\ UNCHANGED <<op, caller, cur, calls, batchVars>>
            ELSE
              /\ Failed(IF link = "ok" THEN "nourl" ELSE "nolink")
              /\ NextFile
    /\ requested' = 0
    /\ range_start' = Absent
    /\ UNCHANGED <<worldVars, flagVars, engine_used, full_read, history, ret,
                   download, cliLoopVars, guiLoopVars, err, resume_from,
                   interrupted_at>>
    /\ UNCHANGED queueVars
    /\ UNCHANGED shareVars
    /\ UNCHANGED cacheVars
    /\ UNCHANGED updaterVars
    /\ NoPoll
    /\ UNCHANGED threadVars
    /\ UNCHANGED delayVars
    /\ UNCHANGED uiVars

\* download_all_files, lines 531-557: add the download to the daemon.
BatchAdd ==
    /\ pc = "b_add"
    /\ \E r \in {"ok", "raise"} :
         IF r = "ok"
         THEN /\ sessions' = Append(sessions, NewSession(cur, CliConnections, CliConnections, FALSE))
              /\ download' = NewDownload(cur)
              /\ engine_used' = [engine_used EXCEPT ![cur] = "aria2"]
              /\ last_progress' = -1
              /\ no_progress_for' = 0
              /\ pc' = "b_loop"
              /\ err' = err
         ELSE /\ err' = "engine"
              /\ pc' = "b_except"
              /\ UNCHANGED <<sessions, download, engine_used, cliLoopVars>>
    /\ UNCHANGED <<program, use_aria2, has_aria2, settings, disk, flagVars, op,
                   caller, cur, size, quiet, calls, task_state, cause, full_read,
                   history, ret, guiLoopVars, netVars, batchVars>>
    /\ UNCHANGED queueVars
    /\ UNCHANGED shareVars
    /\ UNCHANGED cacheVars
    /\ UNCHANGED updaterVars
    /\ NoPoll
    /\ UNCHANGED threadVars
    /\ ForgetLink
    /\ UNCHANGED delayVars
    /\ UNCHANGED uiVars

\* download_all_files, lines 559-582: one iteration of the polling loop. A set
\* cancel event removes the download and returns from download_all_files.
BatchPoll ==
    /\ pc = "b_loop"
    /\ ~is_complete
    /\ IF cancel_event
       THEN /\ sessions' = Removed
            /\ task_state' = [task_state EXCEPT ![cur] = "Cancelled"]
            /\ cause' = [cause EXCEPT ![cur] = "cancel"]
            /\ LeaveEntry
            /\ ResetLocals
       ELSE /\ \E u \in {"ok", "client_exc", "other_exc"}, lat \in CliLatency :
                 \/ /\ u = "ok"
                    /\ Known
                    /\ download' = Updated
                    /\ IF Updated.completed # last_progress
                       THEN /\ last_progress' = Updated.completed
                            /\ no_progress_for' = CliPollInterval
                            /\ UNCHANGED <<pc, err>>
                       ELSE IF CliStalled(Updated, Age(no_progress_for, lat))
                            THEN /\ err' = "stall"
                                 /\ pc' = "b_except"
                                 /\ UNCHANGED cliLoopVars
                            ELSE /\ Followed(Age(no_progress_for, lat + CliPollInterval),
                                             MaxQuietCli)
                                 /\ no_progress_for' =
                                        Age(no_progress_for, lat + CliPollInterval)
                                 /\ UNCHANGED <<pc, err, last_progress>>
                 \/ /\ u = "client_exc"
                    /\ Followed(Age(no_progress_for, lat), MaxQuietCli)
                    /\ no_progress_for' = Age(no_progress_for, lat)
                    /\ UNCHANGED <<pc, err, download, last_progress>>
                 \/ /\ u = "other_exc"
                    /\ err' = "engine"
                    /\ pc' = "b_except"
                    /\ UNCHANGED <<download, cliLoopVars>>
            /\ UNCHANGED <<sessions, op, caller, cur, size, quiet, calls, task_state,
                           cause, guiLoopVars>>
    /\ UNCHANGED <<program, use_aria2, has_aria2, settings, disk, flagVars,
                   engine_used, full_read, history, ret, netVars, batchVars>>
    /\ UNCHANGED queueVars
    /\ UNCHANGED shareVars
    /\ UNCHANGED cacheVars
    /\ UNCHANGED updaterVars
    /\ overdue_poll' = Overdue
    /\ UNCHANGED threadVars
    /\ ForgetLink
    /\ UNCHANGED delayVars
    /\ UNCHANGED uiVars

\* download_all_files, lines 584-597: the loop is left, the file is checked and a
\* file of the expected size is counted.
BatchVerify ==
    /\ pc = "b_loop"
    /\ is_complete
    /\ IF CliVerify(cur) = "ok"
       THEN /\ successful_downloads' = successful_downloads + 1
            /\ task_state' = [task_state EXCEPT ![cur] = "Completed"]
            /\ NextFile
            /\ ResetLocals
            /\ UNCHANGED <<cause, failed_downloads>>
       ELSE /\ err' = CliVerify(cur)
            /\ pc' = "b_except"
            /\ UNCHANGED <<op, caller, cur, size, quiet, calls, task_state, cause,
                           download, cliLoopVars, guiLoopVars, batchVars>>
    /\ UNCHANGED <<worldVars, flagVars, engine_used, full_read, history, ret, netVars>>
    /\ UNCHANGED queueVars
    /\ UNCHANGED shareVars
    /\ UNCHANGED cacheVars
    /\ UNCHANGED updaterVars
    /\ NoPoll
    /\ UNCHANGED threadVars
    /\ ForgetLink
    /\ UNCHANGED delayVars
    /\ UNCHANGED uiVars

\* download_all_files, lines 599-605: the failure is recorded, the loop goes on.
BatchExcept ==
    /\ pc = "b_except"
    /\ Failed(err)
    /\ NextFile
    /\ ResetLocals
    /\ UNCHANGED <<worldVars, flagVars, engine_used, full_read, history, ret, netVars>>
    /\ UNCHANGED queueVars
    /\ UNCHANGED shareVars
    /\ UNCHANGED cacheVars
    /\ UNCHANGED updaterVars
    /\ NoPoll
    /\ UNCHANGED threadVars
    /\ ForgetLink
    /\ UNCHANGED delayVars
    /\ UNCHANGED uiVars

\* download_all_files, lines 612-623: download_file(..., quiet=True) has returned.
BatchReturned ==
    /\ pc = "b_returned"
    /\ IF ret[cur] = "True"
       THEN /\ successful_downloads' = successful_downloads + 1
            /\ UNCHANGED failed_downloads
       ELSE /\ failed_downloads' = Append(failed_downloads, cur)
            /\ UNCHANGED successful_downloads
    /\ NextFile
    /\ UNCHANGED <<worldVars, flagVars, outVars, download, cliLoopVars, guiLoopVars,
                   err, netVars>>
    /\ UNCHANGED queueVars
    /\ UNCHANGED shareVars
    /\ UNCHANGED cacheVars
    /\ UNCHANGED updaterVars
    /\ NoPoll
    /\ UNCHANGED threadVars
    /\ ForgetLink
    /\ UNCHANGED delayVars
    /\ UNCHANGED uiVars

\* TeraboxDownloader.cancel_download, lines 1023-1025.
cancel_download ==
    /\ program = "cli"
    /\ pc # "idle"
    /\ ~cancel_event
    /\ cancel_event' = TRUE
    /\ UNCHANGED <<worldVars, cancel_flag, ctlVars, outVars, download, cliLoopVars,
                   guiLoopVars, err, netVars, batchVars>>
    /\ UNCHANGED queueVars
    /\ UNCHANGED shareVars
    /\ UNCHANGED cacheVars
    /\ UNCHANGED updaterVars
    /\ NoPoll
    /\ UNCHANGED threadVars
    /\ ForgetLink
    /\ UNCHANGED delayVars
    /\ UNCHANGED uiVars

(* --------------------- TeraboxGUI.download_file ----------------------- *)
\* process_download_queue, lines 774-781: the worker takes file f off the queue
\* and calls download_file.
gui_download_file(f) ==
    /\ pc = "idle"
    /\ program = "gui"
    /\ calls = 0
    /\ \E sz \in 1..MaxSize : size' = [size EXCEPT ![f] = sz]
    /\ pc' = "g_start"
    /\ op' = "gui_download_file"
    /\ caller' = "queue"
    /\ cur' = f
    /\ quiet' = FALSE
    /\ ClearOutcome(f)
    /\ UNCHANGED <<worldVars, flagVars, calls, download, cliLoopVars, guiLoopVars,
                   err, netVars, batchVars>>
    /\ UNCHANGED queueVars
    /\ UNCHANGED shareVars
    /\ UNCHANGED cacheVars
    /\ UNCHANGED updaterVars
    /\ NoPoll
    /\ UNCHANGED threadVars
    /\ ForgetLink
    /\ UNCHANGED delayVars
    /\ UNCHANGED uiVars

\* The options of the first session, lines 826-827 and 850-855 ("header" with
\* the Cookie of the link resolver).
FirstSession(f) == NewSession(f, settings.max_connections, settings.split, TRUE)

\* The options of the session of a restart, lines 906-907; no "header" among them.
RestartSession(f) == NewSession(f, RestartConnections, RestartConnections, FALSE)

\* download_file, lines 790-865: clear the cancel flag, get the link, add the
\* download to the daemon, set the loop locals.
GuiStart ==
    /\ pc = "g_start"
    /\ cancel_flag' = FALSE
    /\ \E link \in {"ok", "raise"}, dl \in Links, r \in {"ok", "raise"} :
         /\ Resolve(link, dl)
         /\ IF link = "raise" \/ SelectUrl(dl) = NoUrl
            THEN /\ err' = IF link = "ok" THEN "nourl" ELSE "nolink"
                 /\ filename_set' = FALSE
                 /\ pc' = "g_except"
                 /\ UNCHANGED <<sessions, download, engine_used, last_update_ago,
                                last_progress_ago, session_ago>>
            ELSE IF ~has_aria2
            THEN /\ err' = "engine_unavailable"
                 /\ filename_set' = TRUE
                 /\ pc' = "g_except"
                 /\ UNCHANGED <<sessions, download, engine_used, last_update_ago,
                                last_progress_ago, session_ago>>
            ELSE IF r = "raise"
            THEN /\ err' = "engine"
                 /\ filename_set' = TRUE
                 /\ pc' = "g_except"
                 /\ UNCHANGED <<sessions, download, engine_used, last_update_ago,
                                last_progress_ago, session_ago>>
            ELSE /\ sessions' = Append(sessions, FirstSession(cur))
                 /\ download' = NewDownload(cur)
                 /\ engine_used' = [engine_used EXCEPT ![cur] = "aria2"]
                 /\ filename_set' = TRUE
                 /\ last_update_ago' = 0
                 /\ last_progress_ago' = 0
                 /\ session_ago' = 0
                 /\ pc' = "g_loop"
                 /\ err' = err
    /\ last_downloaded' = 0
    /\ retry_count' = 0
    /\ UNCHANGED <<program, use_aria2, has_aria2, settings, disk, cancel_event,
                   op, caller, cur, size, quiet, calls, task_state, cause, full_read,
                   history, ret, cliLoopVars, success, netVars, batchVars>>
    /\ last_ui_update_ago' \in {last_ui_update_ago, UiAge(last_ui_update_ago, UpdateInterval)}
    /\ snapshot_ago' = Absent
    /\ spacing' = Absent
    /\ last_snapshot' = Absent
    /\ UNCHANGED queueVars
    /\ UNCHANGED shareVars
    /\ UNCHANGED cacheVars
    /\ UNCHANGED updaterVars
    /\ NoPoll
    /\ UNCHANGED threadVars
    /\ UNCHANGED delayVars

\* download_file, lines 890-892: the snapshot d shows no new bytes and the last
\* progress is more than 30 seconds old.
GuiStalled(d, age) == d.completed = last_downloaded /\ age > StallThreshold

\* A gate that is open whatever the age.
DueAlways(age) == TRUE

\* lines 876 and 1026: time.time() - timestamp >= 0.25
Due(age) == age >= UpdateInterval

\* update_progress_ui, line 1026: the gate of the snapshots, on the age ua of
\* self._last_ui_update, open too where the attribute is not set yet.
UiDue(ua) == ua = Absent \/ Due(ua)

\* update_progress_ui(file_name, downloaded, total, speed), lines 1022-1059,
\* called `elapsed` after the start of the iteration and `rest` before the start
\* of the next: where the gate is open the snapshot is put on _ui_update_queue
\* and _last_ui_update is set.
update_progress_ui(downloaded, elapsed, rest) ==
    IF UiDue(UiAge(last_ui_update_ago, elapsed))
    THEN /\ last_ui_update_ago' = rest
         /\ snapshot_ago' = rest
         /\ spacing' = UiAge(snapshot_ago, elapsed)
         /\ last_snapshot' = downloaded
    ELSE /\ last_ui_update_ago' = UiAge(last_ui_update_ago, elapsed + rest)
         /\ snapshot_ago' = UiAge(snapshot_ago, elapsed + rest)
         /\ UNCHANGED <<spacing, last_snapshot>>

\* An iteration of `elapsed` that does not come to update_progress_ui.
NoSnapshot(elapsed) ==
    /\ last_ui_update_ago' = UiAge(last_ui_update_ago, elapsed)
    /\ snapshot_ago' = UiAge(snapshot_ago, elapsed)
    /\ UNCHANGED <<spacing, last_snapshot>>

\* download_file, lines 867-932: one iteration of the polling loop. download.update()
\* takes lat, the sleep GuiPollInterval; what lies between takes no time.
GuiPoll ==
    /\ pc = "g_loop"
    /\ ~is_complete
    /\ IF cancel_flag
       THEN /\ sessions' = Removed
            /\ err' = "cancel"
            /\ pc' = "g_except"
            /\ UNCHANGED <<download, last_update_ago, last_downloaded,
                           retry_count, last_progress_ago, session_ago, uiVars>>
       ELSE /\ UNCHANGED <<pc, err>>
            /\ \E u \in {"ok", "exc"}, lat \in GuiLatency, r \in {"ok", "raise"} :
                 LET su == UpdateAge(last_update_ago, lat)
                     sp == Age(last_progress_ago, lat)
                     ss == SessionAge(session_ago, lat)
                     sl == SessionAge(session_ago, lat + GuiPollInterval)
                     d == Updated
                 IN  IF u = "exc" \/ ~Known
                     THEN /\ Followed(sp, MaxQuietGui)
                          /\ last_update_ago' = su
                          /\ last_progress_ago' = sp
                          /\ session_ago' = ss
                          /\ NoSnapshot(lat)
                          /\ UNCHANGED <<sessions, download, last_downloaded,
                                         retry_count>>
                     ELSE IF ~Due(su)
                     THEN /\ Followed(Age(sp, GuiPollInterval), MaxQuietGui)
                          /\ download' = d
                          /\ last_update_ago' = UpdateAge(su, GuiPollInterval)
                          /\ last_progress_ago' = Age(sp, GuiPollInterval)
                          /\ session_ago' = sl
                          /\ NoSnapshot(lat + GuiPollInterval)
                          /\ UNCHANGED <<sessions, last_downloaded, retry_count>>
                     ELSE IF ~(d.completed = last_downloaded)
                     THEN /\ download' = d
                          /\ last_progress_ago' = GuiPollInterval
                          /\ session_ago' = sl
                          /\ retry_count' = 0
                          /\ last_update_ago' = GuiPollInterval
                          /\ last_downloaded' = d.completed
                          /\ update_progress_ui(d.completed, lat, GuiPollInterval)
                          /\ UNCHANGED sessions
                     ELSE IF ~GuiStalled(d, sp)
                     THEN /\ Followed(Age(sp, GuiPollInterval), MaxQuietGui)
                          /\ download' = d
                          /\ last_update_ago' = GuiPollInterval
                          /\ last_progress_ago' = Age(sp, GuiPollInterval)
                          /\ session_ago' = sl
                          /\ last_downloaded' = d.completed
                          /\ update_progress_ui(d.completed, lat, GuiPollInterval)
                          /\ UNCHANGED <<sessions, retry_count>>
                     ELSE IF retry_count + 1 < max_retries
                     THEN /\ download' = d
                          /\ retry_count' = retry_count + 1
                          /\ last_update_ago' = GuiPollInterval
                          /\ last_progress_ago' = Age(sp, GuiPollInterval)
                          /\ session_ago' = sl
                          /\ last_downloaded' = d.completed
                          /\ update_progress_ui(d.completed, lat, GuiPollInterval)
                          /\ UNCHANGED sessions
                     ELSE IF r = "ok"
                     THEN /\ Len(sessions) < MaxSessions
                          /\ \E s \in {RestartSession(cur), Connecting(RestartSession(cur))} :
                               /\ sessions' = Append(Removed, s)
                               /\ download' = [NewDownload(cur) EXCEPT
                                                  !.status = s.status,
                                                  !.completed = s.completed]
                          /\ retry_count' = 0
                          /\ last_update_ago' = GuiPollInterval
                          /\ last_progress_ago' = Age(sp, GuiPollInterval)
                          /\ session_ago' = SessionAge(0, GuiPollInterval)
                          /\ last_downloaded' = d.completed
                          /\ update_progress_ui(d.completed, lat, GuiPollInterval)
                     ELSE /\ retry_count + 1 = max_retries
                          /\ sessions' = Removed
                          /\ download' = d
                          /\ retry_count' = retry_count + 1
                          /\ last_update_ago' = su
                          /\ last_progress_ago' = sp
                          /\ session_ago' = ss
                          /\ update_progress_ui(d.completed, lat, 0)
                          /\ UNCHANGED last_downloaded
    /\ UNCHANGED <<program, use_aria2, has_aria2, settings, disk, flagVars, op,
                   caller, cur, size, quiet, calls, outVars, cliLoopVars, success,
                   filename_set, netVars, batchVars>>
    /\ UNCHANGED queueVars
    /\ UNCHANGED shareVars
    /\ UNCHANGED cacheVars
    /\ UNCHANGED updaterVars
    /\ NoPoll
    /\ UNCHANGED threadVars
    /\ ForgetLink
    /\ UNCHANGED delayVars

\* download_file, lines 934-952: the loop is left; size check, then the full
\* sequential read, which can fail.
GuiVerify ==
    /\ pc = "g_loop"
    /\ is_complete
    /\ pc' = "g_status"
    /\ IF ~ExistsFinal(cur)
       THEN /\ success' = FALSE
            /\ cause' = [cause EXCEPT ![cur] = "missing"]
            /\ UNCHANGED full_read
       ELSE IF disk[name[cur]].final # size[cur]
       THEN /\ success' = FALSE
            /\ cause' = [cause EXCEPT ![cur] = "size"]
            /\ UNCHANGED full_read
       ELSE \E readable \in BOOLEAN :
              /\ success' = readable
              /\ full_read' = [full_read EXCEPT ![cur] = readable]
              /\ cause' = [cause EXCEPT ![cur] = IF readable THEN "none" ELSE "read"]
    /\ UNCHANGED <<worldVars, flagVars, op, caller, cur, size, quiet, calls,
                   task_state, engine_used, history, ret, download, cliLoopVars,
                   last_update_ago, last_downloaded, retry_count,
                   last_progress_ago, session_ago, filename_set, err, netVars, batchVars>>
    /\ UNCHANGED queueVars
    /\ UNCHANGED shareVars
    /\ UNCHANGED cacheVars
    /\ UNCHANGED updaterVars
    /\ NoPoll
    /\ UNCHANGED threadVars
    /\ ForgetLink
    /\ UNCHANGED delayVars
    /\ UNCHANGED uiVars

\* download_file, lines 954-960: the Status column of the file's row.
GuiTreeStatus ==
    /\ pc = "g_status"
    /\ task_state' = [task_state EXCEPT ![cur] =
           IF cancel_flag THEN "Cancelled"
           ELSE IF success THEN "Completed" ELSE "Failed"]
    /\ pc' = "g_finish"
    /\ UNCHANGED <<worldVars, flagVars, op, caller, cur, size, quiet, calls, cause,
                   engine_used, full_read, history, ret, download, cliLoopVars,
                   guiLoopVars, err, netVars, batchVars>>
    /\ UNCHANGED queueVars
    /\ UNCHANGED shareVars
    /\ UNCHANGED cacheVars
    /\ UNCHANGED updaterVars
    /\ NoPoll
    /\ UNCHANGED threadVars
    /\ ForgetLink
    /\ UNCHANGED delayVars
    /\ UNCHANGED uiVars

\* os.remove(filename) where the file exists, lines 968-969, 973-974, 997-998
FinalRemoved(f) == [disk EXCEPT ![name[f]].final = Absent]

\* download_file, lines 962-984: the history entry; a task that is not completed
\* loses its file.
GuiFinish ==
    /\ pc = "g_finish"
    /\ IF success /\ ~cancel_flag
       THEN /\ history' = [history EXCEPT ![cur] = "Completed"]
            /\ disk' = disk
       ELSE /\ history' = [history EXCEPT ![cur] =
                   IF cancel_flag THEN "Cancelled" ELSE "Failed"]
            /\ disk' = FinalRemoved(cur)
    /\ LeaveEntry
    /\ ResetLocals
    /\ UNCHANGED <<program, use_aria2, has_aria2, settings, sessions, flagVars,
                   task_state, cause, engine_used, full_read, ret, netVars, batchVars>>
    /\ UNCHANGED queueVars
    /\ UNCHANGED shareVars
    /\ UNCHANGED cacheVars
    /\ UNCHANGED updaterVars
    /\ NoPoll
    /\ UNCHANGED threadVars
    /\ ForgetLink
    /\ UNCHANGED delayVars
    /\ UNCHANGED uiVars

\* download_file, lines 986-999: the handler of every exception of the task.
GuiExcept ==
    /\ pc = "g_except"
    /\ history' = [history EXCEPT ![cur] = "Error"]
    /\ task_state' = [task_state EXCEPT ![cur] = "Cancelled"]
    /\ cause' = [cause EXCEPT ![cur] = err]
    /\ disk' = IF filename_set THEN FinalRemoved(cur) ELSE disk
    /\ LeaveEntry
    /\ ResetLocals
    /\ UNCHANGED <<program, use_aria2, has_aria2, settings, sessions, flagVars,
                   engine_used, full_read, ret, netVars, batchVars>>
    /\ UNCHANGED queueVars
    /\ UNCHANGED shareVars
    /\ UNCHANGED cacheVars
    /\ UNCHANGED updaterVars
    /\ NoPoll
    /\ UNCHANGED threadVars
    /\ ForgetLink
    /\ UNCHANGED delayVars
    /\ UNCHANGED uiVars

\* TeraboxGUI.cancel_download, lines 1098-1103: the Cancel button, enabled while
\* download_file runs.
gui_cancel_download ==
    /\ program = "gui"
    /\ pc \in {"g_loop", "g_status", "g_finish", "g_except"}
    /\ ~cancel_flag
    /\ cancel_flag' = TRUE
    /\ UNCHANGED <<worldVars, cancel_event, ctlVars, outVars, download, cliLoopVars,
                   guiLoopVars, err, netVars, batchVars>>
    /\ UNCHANGED queueVars
    /\ UNCHANGED shareVars
    /\ UNCHANGED cacheVars
    /\ UNCHANGED updaterVars
    /\ NoPoll
    /\ UNCHANGED threadVars
    /\ ForgetLink
    /\ UNCHANGED delayVars
    /\ UNCHANGED uiVars


(* ------------------------ TeraboxGUI.on_closing ----------------------- *)
\* kill_aria2_process, lines 1311-1319: taskkill ends the daemon and with it every
\* download it knew.
Killed ==
    [i \in 1..Len(sessions) |->
        [sessions[i] EXCEPT !.status = "removed", !.completed = 0]]

\* on_closing, lines 1012-1016: the user confirms the exit; the daemon is killed
\* and the main loop ends, which ends the worker (a daemon thread) where it is.
\* No file is touched.
on_closing ==
    /\ program = "gui"
    /\ pc # "closed"
    /\ pc' = "closed"
    /\ sessions' = Killed
    /\ ResetLocals
    /\ UNCHANGED <<program, use_aria2, has_aria2, settings, disk, flagVars, op, caller,
                   cur, size, quiet, calls, outVars, netVars, batchVars>>
    /\ UNCHANGED queueVars
    /\ UNCHANGED shareVars
    /\ UNCHANGED cacheVars
    /\ UNCHANGED updaterVars
    /\ NoPoll
    /\ UNCHANGED threadVars
    /\ ForgetLink
    /\ UNCHANGED delayVars
    /\ UNCHANGED uiVars

(* ------------------- TeraboxGUI.process_download_queue ---------------- *)
\* A thread that has not returned from process_download_queue.
Running(t) == t # "dead"

\* A download_thread that is_alive() never finds alive.
never_alive(t) == FALSE

\* threading.Thread.is_alive() of a thread in state t
is_alive(t) == Running(t)

\* queue_download, lines 763-770: file f is put on the queue; a worker thread is
\* started where there is no download_thread or it is not alive. A thread that
\* has returned and is no longer download_thread is let go of.
\* A file is queued once, and not while it is the file in hand.
queue_download(f) ==
    /\ program = "gui"
    /\ cur # f
    /\ Len(download_queue) + calls < MaxCalls
    /\ task_state[f] = "none"
    /\ \A i \in 1..Len(download_queue) : download_queue[i] # f
    /\ download_queue' = Append(download_queue, f)
    /\ threads' = IF threads = << >> \/ ~is_alive(threads[Len(threads)])
                  THEN Append(SelectSeq(threads, Running), "loop")
                  ELSE threads
    /\ UNCHANGED <<worldVars, flagVars, ctlVars, outVars, download, cliLoopVars,
                   guiLoopVars, err, netVars, batchVars>>
    /\ UNCHANGED delayVars
    /\ UNCHANGED uiVars
    /\ UNCHANGED shareVars
    /\ UNCHANGED cacheVars
    /\ UNCHANGED updaterVars
    /\ NoPoll
    /\ ForgetLink

\* process_download_queue, lines 772-786: the worker takes the next file off the
\* queue and calls download_file; whatever download_file does, the loop goes on
\* with the file after it.
process_download_queue ==
    /\ program = "gui"
    /\ pc = "idle"
    /\ \E i \in 1..Len(threads) : threads[i] = "loop"
    /\ download_queue # << >>
    /\ Len(sessions) <= MaxHeld
    /\ download_queue' = Tail(download_queue)
    /\ \E sz \in 1..MaxSize : size' = [size EXCEPT ![Head(download_queue)] = sz]
    /\ pc' = "g_start"
    /\ op' = "gui_download_file"
    /\ caller' = "queue"
    /\ cur' = Head(download_queue)
    /\ quiet' = FALSE
    /\ ClearOutcome(Head(download_queue))
    /\ UNCHANGED <<worldVars, flagVars, calls, download, cliLoopVars, guiLoopVars,
                   err, netVars, batchVars>>
    /\ UNCHANGED delayVars
    /\ UNCHANGED uiVars
    /\ UNCHANGED shareVars
    /\ UNCHANGED cacheVars
    /\ UNCHANGED updaterVars
    /\ NoPoll
    /\ UNCHANGED threadVars
    /\ ForgetLink

\* process_download_queue, lines 775-778: get(timeout=1) of worker i finds the
\* queue empty for a second and raises queue.Empty.
QueueEmpty(i) ==
    /\ program = "gui"
    /\ pc = "idle"
    /\ threads[i] = "loop"
    /\ download_queue = << >>
    /\ threads' = [threads EXCEPT ![i] = "empty"]
    /\ UNCHANGED <<worldVars, flagVars, ctlVars, outVars, download, cliLoopVars,
                   guiLoopVars, err, netVars, batchVars>>
    /\ UNCHANGED queueVars
    /\ UNCHANGED shareVars
    /\ UNCHANGED cacheVars
    /\ UNCHANGED updaterVars
    /\ NoPoll
    /\ ForgetLink
    /\ UNCHANGED delayVars
    /\ UNCHANGED uiVars

\* process_download_queue, lines 777-778: worker i breaks out of the loop and
\* its thread ends.
WorkerExit(i) ==
    /\ threads[i] = "empty"
    /\ threads' = [threads EXCEPT ![i] = "dead"]
    /\ UNCHANGED <<worldVars, flagVars, ctlVars, outVars, download, cliLoopVars,
                   guiLoopVars, err, netVars, batchVars>>
    /\ UNCHANGED queueVars
    /\ UNCHANGED shareVars
    /\ UNCHANGED cacheVars
    /\ UNCHANGED updaterVars
    /\ NoPoll
    /\ ForgetLink
    /\ UNCHANGED delayVars
    /\ UNCHANGED uiVars

(* --------------------------- specification ---------------------------- *)
Next ==
    \/ \E f \in Files : process_url(f)
    \/ download_file_enter
    \/ DirectGet
    \/ DirectChunk
    \/ DirectCheck
    \/ DirectExcept
    \/ KeyboardInterrupt
    \/ \E f \in Files : resume_download(f)
    \/ ResumeRequest
    \/ ResumeChunk
    \/ ResumeCheck
    \/ ResumeExcept
    \/ \E i \in 1..Len(sessions) : EngineWrite(i)
    \/ \E i \in 1..Len(sessions) : EngineConnect(i)
    \/ \E i \in 1..Len(sessions) : EngineComplete(i)
    \/ \E i \in 1..Len(sessions) : EngineError(i)
    \/ AriaAdd
    \/ AriaPoll
    \/ AriaVerify
    \/ AriaExcept
    \/ download_all_files
    \/ BatchLink
    \/ BatchAdd
    \/ BatchPoll
    \/ BatchVerify
    \/ BatchExcept
    \/ BatchReturned
    \/ cancel_download
    \/ \E f \in Files : gui_download_file(f)
    \/ GuiStart
    \/ GuiPoll
    \/ GuiVerify
    \/ GuiTreeStatus
    \/ GuiFinish
    \/ GuiExcept
    \/ gui_cancel_download
    \/ on_closing

Spec == Init /\ [][Next]_vars

\* The queues: download_all_files over the files of a share, and the worker of
\* the GUI over the files put on its queue, with the settings at their defaults.
InitQueue ==
    /\ Init
    /\ settings = [max_connections |-> DefaultConnections, split |-> DefaultConnections]

NextQueue ==
    \/ download_all_files
    \/ BatchLink
    \/ BatchAdd
    \/ BatchPoll
    \/ BatchVerify
    \/ BatchExcept
    \/ BatchReturned
    \/ download_file_enter
    \/ DirectGet
    \/ DirectChunk
    \/ DirectCheck
    \/ DirectExcept
    \/ cancel_download
    \/ \E i \in 1..Len(sessions) : EngineWrite(i)
    \/ \E i \in 1..Len(sessions) : EngineConnect(i)
    \/ \E i \in 1..Len(sessions) : EngineComplete(i)
    \/ \E i \in 1..Len(sessions) : EngineError(i)
    \/ \E f \in Files : queue_download(f)
    \/ process_download_queue
    \/ \E i \in 1..Len(threads) : QueueEmpty(i)
    \/ \E i \in 1..Len(threads) : WorkerExit(i)
    \/ GuiStart
    \/ GuiPoll
    \/ GuiVerify
    \/ GuiTreeStatus
    \/ GuiFinish
    \/ GuiExcept
    \/ gui_cancel_download

SpecQueue == InitQueue /\ [][NextQueue]_vars

\* The queues over a share that holds the same file name in every folder:
\* flatten_files keeps file['name'] only, so every file has the one destination.
InitShare ==
    /\ InitCore
    /\ settings = [max_connections |-> DefaultConnections, split |-> DefaultConnections]
    /\ name = [f \in Files |-> 1]

SpecShare == InitShare /\ [][NextQueue]_vars

(* ------------------- the progress display of the GUI ------------------ *)
\* What an action of the display leaves alone.
DisplayFrame ==
    /\ UNCHANGED <<worldVars, flagVars, ctlVars, outVars, download, cliLoopVars,
                   guiLoopVars, err, netVars, batchVars>>
    /\ UNCHANGED queueVars
    /\ UNCHANGED shareVars
    /\ UNCHANGED cacheVars
    /\ NoPoll
    /\ UNCHANGED threadVars
    /\ ForgetLink
    /\ UNCHANGED delayVars
    /\ UNCHANGED uiVars

\* threading.Thread(target=update_ui), line 1096: a thread at the first line of
\* update_ui, its list `updates` not made yet.
NewUpdater == [pc |-> "start", updates |-> << >>]

\* update_progress_ui, lines 1046-1056, in a call that passes the gate of line
\* 1026: the snapshot is put on the queue, and an updater thread is started
\* where _ui_update_running reads False.
PutUpdate ==
    /\ program = "gui"
    /\ puts < MaxSnapshots
    /\ puts' = puts + 1
    /\ ui_update_queue' = Append(ui_update_queue, puts + 1)
    /\ updaters' = IF ~ui_update_running THEN Append(updaters, NewUpdater) ELSE updaters
    /\ UNCHANGED <<ui_update_running, dispatched>>
    /\ DisplayFrame

\* update_ui, line 1064: the thread sets _ui_update_running.
UpdaterStart(i) ==
    /\ updaters[i].pc = "start"
    /\ ui_update_running' = TRUE
    /\ updaters' = [updaters EXCEPT ![i].pc = "check"]
    /\ UNCHANGED <<ui_update_queue, dispatched, puts>>
    /\ DisplayFrame

\* update_ui, line 1068: `while not self._ui_update_queue.empty()`.
UpdaterCheck(i) ==
    /\ updaters[i].pc = "check"
    /\ updaters' = [updaters EXCEPT ![i].pc =
                        IF ui_update_queue = << >> THEN "drained" ELSE "get"]
    /\ UNCHANGED <<ui_update_queue, ui_update_running, dispatched, puts>>
    /\ DisplayFrame

\* update_ui, line 1069: get_nowait() takes the head of the queue into updates;
\* on a queue another thread has emptied meanwhile it raises queue.Empty, and the
\* handler of lines 1088-1090 clears the flag and ends the thread.
UpdaterGet(i) ==
    /\ updaters[i].pc = "get"
    /\ IF ui_update_queue # << >>
       THEN /\ updaters' = [updaters EXCEPT
                                ![i].pc = "check",
                                ![i].updates = Append(@, Head(ui_update_queue))]
            /\ ui_update_queue' = Tail(ui_update_queue)
            /\ UNCHANGED ui_update_running
       ELSE /\ updaters' = [updaters EXCEPT ![i].pc = "done"]
            /\ ui_update_running' = FALSE
            /\ UNCHANGED ui_update_queue
    /\ UNCHANGED <<dispatched, puts>>
    /\ DisplayFrame

\* update_ui, lines 1071-1084: with nothing taken the thread clears the flag and
\* ends; else it hands the last snapshot taken to root.after.
UpdaterDispatch(i) ==
    /\ updaters[i].pc = "drained"
    /\ IF updaters[i].updates = << >>
       THEN /\ ui_update_running' = FALSE
            /\ updaters' = [updaters EXCEPT ![i].pc = "done"]
            /\ UNCHANGED dispatched
       ELSE /\ dispatched' = Append(dispatched,
                                    updaters[i].updates[Len(updaters[i].updates)])
            /\ updaters' = [updaters EXCEPT ![i].pc = "sleep"]
            /\ UNCHANGED ui_update_running
    /\ UNCHANGED <<ui_update_queue, puts>>
    /\ DisplayFrame

\* update_ui, lines 1086 and 1067: the sleep is over, the next round starts
\* with an empty list.
UpdaterSleep(i) ==
    /\ updaters[i].pc = "sleep"
    /\ updaters' = [updaters EXCEPT ![i].pc = "check", ![i].updates = << >>]
    /\ UNCHANGED <<ui_update_queue, ui_update_running, dispatched, puts>>
    /\ DisplayFrame

\* The progress display on its own: the worker puts snapshots, the updater
\* threads take them.
InitUi ==
    /\ Init
    /\ program = "gui"
    /\ use_aria2
    /\ settings = [max_connections |-> DefaultConnections, split |-> DefaultConnections]

NextUi ==
    \/ PutUpdate
    \/ \E i \in 1..Len(updaters) : UpdaterStart(i)
    \/ \E i \in 1..Len(updaters) : UpdaterCheck(i)
    \/ \E i \in 1..Len(updaters) : UpdaterGet(i)
    \/ \E i \in 1..Len(updaters) : UpdaterDispatch(i)
    \/ \E i \in 1..Len(updaters) : UpdaterSleep(i)

SpecUi == InitUi /\ [][NextUi]_vars

(* --------------------- the file list cache of the GUI ----------------- *)
\* What a call of TeraboxGUI.process_url leaves alone.
CacheFrame ==
    /\ UNCHANGED <<worldVars, flagVars, ctlVars, outVars, download, cliLoopVars,
                   guiLoopVars, err, netVars, batchVars>>
    /\ UNCHANGED queueVars
    /\ UNCHANGED shareVars
    /\ UNCHANGED updaterVars
    /\ NoPoll
    /\ UNCHANGED threadVars
    /\ ForgetLink
    /\ UNCHANGED delayVars
    /\ UNCHANGED uiVars

\* TeraboxGUI.process_url, lines 666-720, for the URL u typed e seconds after
\* the step before: a list in the dictionary is served where the one time stamp
\* _last_file_check is younger than the timeout; else the list is fetched, which
\* takes d seconds, and on success stored under u with _last_file_check set to
\* the time read before the fetch.
gui_process_url(u) ==
    /\ program = "gui"
    /\ pc = "idle"
    /\ \E e \in Elapsed, d \in Elapsed, ok \in BOOLEAN :
         IF u \in file_cache /\ CacheAge(last_file_check_ago, e) < cache_timeout
         THEN /\ served' = u
              /\ list_age' = [v \in CacheUrls |-> CacheAge(list_age[v], e)]
              /\ last_file_check_ago' = CacheAge(last_file_check_ago, e)
              /\ UNCHANGED file_cache
         ELSE /\ served' = NoUrl
              /\ IF ok
                 THEN /\ file_cache' = file_cache \cup {u}
                      /\ list_age' = [v \in CacheUrls |->
                                         IF v = u THEN 0
                                         ELSE CacheAge(CacheAge(list_age[v], e), d)]
                      /\ last_file_check_ago' = d
                 ELSE /\ list_age' = [v \in CacheUrls |->
                                         CacheAge(CacheAge(list_age[v], e), d)]
                      /\ last_file_check_ago' =
                             CacheAge(CacheAge(last_file_check_ago, e), d)
                      /\ UNCHANGED file_cache
    /\ CacheFrame

InitCache ==
    /\ Init
    /\ program = "gui"
    /\ use_aria2
    /\ settings = [max_connections |-> DefaultConnections, split |-> DefaultConnections]

NextCache == \E u \in CacheUrls : gui_process_url(u)

SpecCache == InitCache /\ [][NextCache]_vars

(* ------------------------------ properties ---------------------------- *)
\* C1: on every download path a task is reported successful (True returned,
\* counted in successful_downloads, status Completed) only while the file on
\* disk has exactly the expected size.
C1_SuccessOnlyAtExpectedSize ==
    [][\A f \in Files :
          (task_state[f] # "Completed" /\ task_state'[f] = "Completed")
              => disk'[f].final = size'[f]]_vars

\* C1 happens: a task carried by aria2 is reported Completed for a file of the
\* largest size, which is on disk in full.
C1_Witness ==
    \E f \in Files : /\ task_state[f] = "Completed"
                     /\ engine_used[f] = "aria2"
                     /\ size[f] = MaxSize
                     /\ disk[f].final = size[f]

\* C2: on every download path a task is reported successful only after a full
\* sequential read of the downloaded file has succeeded, and a task whose read
\* failed is not reported successful.
C2_SuccessOnlyAfterFullRead ==
    \A f \in Files : /\ task_state[f] = "Completed" => full_read[f]
                     /\ cause[f] = "read" => task_state[f] # "Completed"

\* C3: once a task is reported Failed or Cancelled the destination does not hold
\* a file of the expected size, and no session of the task is still active in
\* the daemon.
C3_NoFullFileAfterFailure ==
    \A f \in Files :
        task_state[f] \in {"Failed", "Cancelled"}
            => /\ disk[f].final # size[f]
               /\ \A i \in 1..Len(sessions) :
                      sessions[i].file = f => sessions[i].status # "active"

\* C4: a task that ends after its post-transfer verification failed (file
\* missing, size different, read error) ends with the output file deleted and
\* reported Failed (Cancelled where the user cancelled meanwhile), never
\* Completed, on the CLI paths with aria2 as in the GUI.
C4_VerificationFailureDeletes ==
    [][\A f \in Files :
          (cur = f /\ cur' # f /\ cause'[f] \in {"missing", "size", "read"})
              => /\ disk'[f].final = Absent
                 /\ task_state'[f] \in {"Failed", "Cancelled"}]_vars

\* C5: the GUI supervisor restarts the session of a stalled task at most
\* max_retries times: a task never has more sessions than the first one and
\* max_retries restarts.
C5_RestartsBounded ==
    (program = "gui" /\ pc = "g_loop")
        => Cardinality({i \in 1..Len(sessions) : sessions[i].file = cur})
               <= 1 + max_retries

\* C6: the session the GUI issues on a stall-triggered restart has a connection
\* count and a split count strictly lower than those of the session it replaces.
C6_RestartLowersConnections ==
    program = "gui"
        => \A i \in 2..Len(sessions) :
               sessions[i].file = sessions[i - 1].file
                   => /\ sessions[i].conn < sessions[i - 1].conn
                      /\ sessions[i].split < sessions[i - 1].split

\* C7: where aria2 was not available at startup, every task that got its link is
\* carried by the direct engine and none ends because the engine is missing,
\* in the CLI and in the GUI.
C7_FallbackToDirect ==
    (IF program = "cli" THEN ~use_aria2 ELSE ~has_aria2)
        => \A f \in Files :
               (task_state[f] # "none" /\ cause[f] \notin {"nolink", "nourl"})
                   => /\ engine_used[f] = "direct"
                      /\ cause[f] # "engine_unavailable"

\* C8: every return of the direct path of download_file is one of two: True, the
\* temporary file had the size filesize and is now the destination; or False,
\* and no temporary file is left and the destination is as it was. Without aria2
\* the destination changes only by the rename of a temporary file of that size.
C8_DirectOutcome ==
    [][/\ \A f \in Files :
             (pc \in {"d_check", "d_except"} /\ cur = f /\ ret'[f] # "none")
                 => \/ /\ ret'[f] = "True"
                       /\ disk[f].temp = size[f]
                       /\ disk'[f] = [final |-> size[f], temp |-> Absent]
                    \/ /\ ret'[f] = "False"
                       /\ disk'[f] = [final |-> disk[f].final, temp |-> Absent]
       /\ \A f \in Files :
             (~use_aria2 /\ disk'[f].final # disk[f].final)
                 => /\ disk[f].temp = size[f]
                    /\ disk'[f].final = size[f]]_vars

\* C8 happens: the direct path returned False after at least a chunk was requested
\* and no temporary file is left, while another file was returned True in full.
C8_Witness ==
    /\ ~use_aria2
    /\ \E f \in Files : /\ ret[f] = "False"
                        /\ cause[f] \in {"size", "network"}
                        /\ disk[f].temp = Absent
    /\ \E f \in Files : /\ ret[f] = "True"
                        /\ disk[f] = [final |-> size[f], temp |-> Absent]

\* C9: a resume_download that found a partial temporary file of k chunks asks
\* the network for filesize - k chunks in all, whatever the server delivers.
C9_ResumeRequestsOnlyTheRest ==
    (op = "resume_download" /\ resume_from # Absent)
        => requested = size[cur] - resume_from

\* C10: a direct transfer that a network error ended after k chunks
\* (0 < k < filesize) is resumed with a request that starts at chunk k, and a
\* resume that returns True leaves a destination of filesize chunks. (While the
\* resume handles a network error of its own, k is not yet the point resumed.)
C10_ResumeStartsAtInterruption ==
    (/\ op = "resume_download"
     /\ err # "network"
     /\ interrupted_at[cur] > 0
     /\ interrupted_at[cur] < size[cur])
        => /\ range_start # Absent => range_start = interrupted_at[cur]
           /\ ret[cur] = "True" => disk[cur].final = size[cur]

C13_NoChunkAfterCancel ==
    [][(cancel_event /\ pc \in {"d_stream", "r_stream"})
           => \A f \in Files : disk'[f].temp <= disk[f].temp]_vars

\* C14: when the direct engine is cancelled in the middle of a transfer it writes
\* nothing more, the partial temporary file stays where it is, and the call
\* returns a cancelled result.
C14_CancelKeepsPartialFile ==
    [][\A f \in Files :
          (cause[f] # "cancel" /\ cause'[f] = "cancel" /\ engine_used'[f] = "direct")
             => /\ ExistsTemp(f)
                /\ disk'[f].temp = disk[f].temp
                /\ task_state'[f] = "Cancelled"]_vars

\* C15: a cancel by the user removes the partial file of the task on every path
\* (direct engine, aria2 from the command line, the GUI), and closing the window
\* removes no file.
C15_CancelRemovesPartialFile ==
    [][/\ \A f \in Files :
            (cause[f] # "cancel" /\ cause'[f] = "cancel")
               => /\ disk'[f].temp = Absent
                  /\ (engine_used'[f] = "aria2" => disk'[f].final \notin 0..(size[f] - 1))
       /\ (pc # "closed" /\ pc' = "closed") => disk' = disk]_vars

\* C16: a network error of download_file and a stall of download_with_aria2 are
\* retried by the call itself: the call reports a failure for one of these causes
\* only after it asked the server again (a second request, a second session).
C16_RetriedBeforeFailure ==
    [][(/\ op = "download_file"
        /\ caller = "single"
        /\ task_state[cur] # "Failed"
        /\ task_state'[cur] = "Failed")
           => /\ cause'[cur] = "network" => requested > size[cur]
              /\ cause'[cur] = "stall" => Len(sessions) > 1]_vars

\* calculate_delay on its own, called with every attempt number in turn.
InitDelay ==
    /\ Init
    /\ program = "cli"

NextDelay == \E a \in 0..MaxAttempt : calculate_delay(a)

SpecDelay == InitDelay /\ [][NextDelay]_vars

\* d of the claim: 2 seconds for attempt 0, half as much again for each further
\* attempt, and never more than 60 seconds.
RECURSIVE C17_Expected(_)
C17_Expected(a) ==
    IF a = 0
    THEN 2 * TicksPerSecond
    ELSE IF (C17_Expected(a - 1) * 3) \div 2 < 60 * TicksPerSecond
         THEN (C17_Expected(a - 1) * 3) \div 2
         ELSE 60 * TicksPerSecond

\* C17: calculate_delay(attempt) returns a value between d and 1.1 * d, where
\* d = min(2 * 1.5^attempt, 60) seconds; d is at most 60 and does not go down
\* when the attempt number goes up.
C17_DelayWithinBackoff ==
    [][attempt' # Absent =>
          /\ delay' = C17_Expected(attempt')
          /\ delay' <= 60 * TicksPerSecond
          /\ delay' <= delay' + jitter'
          /\ 10 * (delay' + jitter') <= 11 * delay'
          /\ (attempt # Absent /\ attempt <= attempt') => delay <= delay']_vars

\* C17 happens: a call whose backoff is cut to the cap and whose jitter is at its
\* upper end.
C17_Witness ==
    /\ attempt = MaxAttempt
    /\ delay = 60 * TicksPerSecond
    /\ 10 * jitter = delay

\* C18: any two snapshots that update_progress_ui puts on the queue for the same
\* task are at least 250 ms apart.
C18_SnapshotsSpaced == spacing = Absent \/ spacing >= UpdateInterval

\* C18 happens: a second snapshot of a task was enqueued, with more bytes than
\* the one before had.
C18_Witness ==
    /\ program = "gui"
    /\ pc = "g_loop"
    /\ spacing # Absent
    /\ last_snapshot > 0

\* C19: over the whole run of the GUI's download_file for a task, restarts
\* included, no progress snapshot holds fewer bytes than the one before it.
C19_SnapshotBytesGrow ==
    [][(last_snapshot # Absent /\ last_snapshot' # Absent)
           => last_snapshot' >= last_snapshot]_vars

\* C20: a task of the GUI is reported Cancelled only where its cancellation was
\* requested, a task that ends by an error with the cancel flag not set is
\* reported Failed, and a task that ends by its cancellation is reported and
\* recorded as Cancelled, not as an error.
C20_CancelledIffRequested ==
    [][(program = "gui" /\ pc \in {"g_finish", "g_except"} /\ pc' = "idle")
           => /\ task_state'[cur] = "Cancelled" => cancel_flag
              /\ (pc = "g_except" /\ ~cancel_flag) => task_state'[cur] = "Failed"
              /\ cause'[cur] = "cancel"
                    => /\ task_state'[cur] = "Cancelled"
                       /\ history'[cur] = "Cancelled"]_vars

\* C21: where two tasks of a batch have the same destination path, the second is
\* rejected or sent elsewhere: while another task runs, the destination of a
\* task that was completed stays as that task left it.
C21_NoOverwriteOfAnotherTask ==
    [][\A g \in Files :
          (task_state[g] = "Completed" /\ cur \in Files /\ cur # g)
             => disk'[name[g]] = disk[name[g]]]_vars

\* C22: every download handed to aria2 (the first and the restart sessions of
\* the GUI, those of download_with_aria2 and of download_all_files) carries the
\* request header with the cookie of the link resolver.
C22_EverySessionHasCookie ==
    \A i \in 1..Len(sessions) : sessions[i].header

\* C23: the URL a transfer requests is one of the mirror URLs the resolver
\* returned, character for character: wherever a link has just been resolved
\* and a URL is handed to the transfer, that URL is among the candidates.
C23_UrlIsAMirrorUrl ==
    download_url # NoUrl => download_url \in {download_link.url_1, download_link.url_2}

\* C24: a task whose link was resolved is failed for lack of a mirror only when
\* every candidate URL is empty: wherever the resolver has just returned a
\* candidate that is not empty, a URL is handed to the transfer and no lack of
\* a mirror is raised.
C24_NoMirrorOnlyWhenAllEmpty ==
    (\E k \in DOMAIN download_link : download_link[k] # NoUrl)
       => (download_url # NoUrl /\ err # "nourl")

\* C25: the recorded number of bytes transferred for a task is at most its
\* expected size, whatever the server sends: the count of download_file and of
\* resume_download (the bytes written to the temporary file so far) and the
\* count the GUI hands to its progress display.
C25_RecordedWithinExpected ==
    /\ pc \in {"d_stream", "r_stream"} => disk[name[cur]].temp <= size[cur]
    /\ (program = "gui" /\ cur \in Files /\ last_snapshot # Absent)
          => last_snapshot <= size[cur]

\* C26: a download of the GUI is treated as stalled only after more than 30
\* seconds without a change within the download in hand, a restarted download
\* having 30 seconds of its own: where the stall counter grows, the download in
\* hand is more than 30 seconds old, and the download a restart replaces was so
\* before the poll.
C26_StallWithinActiveSession ==
    [][(pc = "g_loop" /\ pc' = "g_loop")
          => /\ retry_count' > retry_count => session_ago' > StallThreshold
             /\ Len(sessions') > Len(sessions) => session_ago > StallThreshold]_vars

C28_QueuedFileHasWorker ==
    (program = "gui" /\ download_queue # << >>)
       => \E i \in 1..Len(threads) : threads[i] = "loop"

\* C29: a status poll that raises an error of the control channel does not end
\* the task, in download_with_aria2, download_all_files and the download_file
\* of the GUI alike: no step of a polling loop leaves the loop for the error
\* handler with an error of the engine.
C29_PollErrorDoesNotEndTask ==
    [][(pc \in {"a_loop", "b_loop", "g_loop"})
          => ~(err' = "engine" /\ pc' \in {"a_except", "b_except", "g_except"})]_vars

\* C30: between two consecutive status polls the loop sleeps its poll interval
\* (1 second in the command line, 0.1 second in the GUI) on every path through
\* its body: an iteration that goes on to the next one and moves the clock of
\* the loop moves it by the poll interval at least, or sets it anew before the
\* sleep, or takes it to where it no longer counts.
C30_SleepBetweenPolls ==
    [][/\ (pc = "g_loop" /\ pc' = "g_loop" /\ last_update_ago' # last_update_ago)
            => \/ last_update_ago' >= last_update_ago + GuiPollInterval
               \/ last_update_ago' = GuiPollInterval
               \/ last_update_ago' = UpdateInterval
       /\ (pc \in {"a_loop", "b_loop"} /\ pc' = pc /\ no_progress_for' # no_progress_for)
            => \/ no_progress_for' >= no_progress_for + CliPollInterval
               \/ no_progress_for' = CliPollInterval
               \/ no_progress_for' > StallThreshold]_vars

\* C31: where the engine never reports completion and no cancel is asked for,
\* the loops of download_with_aria2 and download_all_files end with a failure
\* after a bounded number of polls, whatever the engine does: no poll begun more
\* than 30 seconds after the last progress leaves the loop running without
\* progress.
C31_NoPollPastTimeout ==
    ~overdue_poll

\* C32: the snapshots are dispatched to the UI in the order they were put on
\* the queue, whatever the interleaving of update_progress_ui and the updater
\* threads: no snapshot is dispatched after a newer one.
C32_DispatchedInOrder ==
    \A i, j \in 1..Len(dispatched) : i < j => dispatched[i] < dispatched[j]

\* C33: every snapshot put on the queue is dispatched or superseded by a later
\* one that is, none being left behind by an updater that ends while
\* _ui_update_running still reads True: while a snapshot waits on the queue, an
\* updater thread is on its way to read the queue.
C33_WaitingSnapshotHasUpdater ==
    ui_update_queue # << >>
       => \E i \in 1..Len(updaters) :
             \/ updaters[i].pc \in {"start", "check", "get", "sleep"}
             \/ updaters[i].pc = "drained" /\ updaters[i].updates # << >>

\* C34: the download_file of the GUI deletes the file at the destination only
\* if a session of the task was started: a task that fails before any session
\* exists (add_uris raises, there is no engine client) leaves what was at the
\* destination as it was.
C34_NoSessionNoDelete ==
    [][(pc = "g_except" /\ pc' = "idle" /\ engine_used[cur] # "aria2")
          => disk'[name[cur]] = disk[name[cur]]]_vars

\* C35: once the loop of the GUI task was left on the engine's completion and
\* the size and the read of the file were verified, the file is kept and the
\* task recorded Completed, whenever after the loop a cancel is asked for: a
\* verified task whose row was set to Completed with the flag still clear ends
\* with its file as it was and with the history entry Completed.
C35_VerifiedTaskIsKept ==
    [][(pc = "g_finish" /\ pc' = "idle" /\ success /\ task_state[cur] = "Completed")
          => /\ disk'[name[cur]] = disk[name[cur]]
             /\ history'[cur] = "Completed"
             /\ task_state'[cur] = "Completed"]_vars

\* C36: every entry point of a transfer (download_file and resume_download of
\* the command line, download_file of the GUI) starts with the cancellation flag
\* cleared, so that a cancel asked for one task does not abort a later one: the
\* first step of each entry point leaves its flag clear.
C36_EntryClearsCancel ==
    [][/\ (pc \in {"df_enter", "r_enter"} /\ pc' # pc) => ~cancel_event'
       /\ (pc = "g_start" /\ pc' # pc) => ~cancel_flag']_vars

\* C37: in download_all_files, after each iteration of the loop over the files
\* that was not ended by a cancel, successful_downloads plus the length of
\* failed_downloads is the number of files processed so far, and each file was
\* counted once: no file is twice in failed_downloads.
C37_EveryFileCountedOnce ==
    [][(/\ op = "download_all_files"
        /\ cur' # cur
        /\ ~(pc = "b_loop" /\ cancel_event))
          => /\ successful_downloads' + Len(failed_downloads') = cur
             /\ \A i, j \in 1..Len(failed_downloads') :
                    i # j => failed_downloads'[i] # failed_downloads'[j]]_vars

\* download_all_files has gone through all the files, some downloaded and some
\* failed.
C37_Witness ==
    /\ program = "cli"
    /\ pc = "idle"
    /\ calls = 1
    /\ successful_downloads >= 1
    /\ Len(failed_downloads) >= 1
    /\ successful_downloads + Len(failed_downloads) = NumFiles

\* C38: TeraboxGUI.process_url serves a file list from the cache only if the
\* list of that same URL was fetched less than cache_timeout seconds ago,
\* whatever calls for other URLs came in between.
C38_ServedListIsFresh ==
    served # NoUrl => list_age[served] < cache_timeout

====
